---- MODULE Spec2Model ----
(***************************************************************************)
(* A model of pipenv's manifest/lock reconciliation and installation       *)
(* orchestration (pipenv/cli.py): do_init, do_lock,                        *)
(* do_install_dependencies, pip_install and pip_download.                  *)
(*                                                                         *)
(* One command run walks through the code; pc is its position.  The       *)
(* Pipfile, Pipfile.lock and the source list are the project's state.      *)
(***************************************************************************)
EXTENDS Integers, Sequences, FiniteSets, TLC

\* ------------------------------------------------------------------ bounds
MaxName == 2        \* package names are 1..MaxName
MaxDecl == 2        \* a Pipfile declares at most MaxDecl packages
MaxVer == 1         \* resolved versions are 1..MaxVer
MaxRes == 2         \* a resolution returns at most MaxRes packages
MaxSources == 2     \* at most MaxSources configured sources
MaxExit == 2        \* installer exit codes are 0..MaxExit
MaxMarker == 1      \* host-marker snapshots are 1..MaxMarker
MaxAnyVer == 2      \* versions are 1..MaxAnyVer where a name may be resolved twice
MaxPkgs == 2        \* `install` is given at most MaxPkgs package names
MaxEnvDecl == 1     \* Pipfiles of the virtualenv runs declare at most MaxEnvDecl packages
MaxKey == 4         \* the spellings of package names are 1..MaxKey
MaxSection == 3     \* a parsed Pipfile section declares at most MaxSection names
MaxLines == 4       \* the installer's output has at most MaxLines lines
MaxFreeze == 3      \* the freeze output lists at most MaxFreeze packages
MaxValue == 2       \* the values declared for them are 1..MaxValue
RecursionLimit == 3 \* the interpreter's recursion limit, in calls of ensure_virtualenv

Names == 1..MaxName
Versions == 1..MaxVer
ExitCodes == 0..MaxExit
Markers == 1..MaxMarker

\* ------------------------------------------------------------- data model
\* A Pipfile section maps a declared name to what is declared for it:
\* nothing, a string specifier ("*", ">=1.0") or a table with a VCS key.
Kinds == {"none", "str", "vcs"}
Sections == [Names -> Kinds]
Declared(sec) == {n \in Names : sec[n] # "none"}
Manifests ==
    {p \in [packages : Sections, devpackages : Sections] :
        Cardinality(Declared(p.packages)) + Cardinality(Declared(p.devpackages)) <= MaxDecl}

\* pipfile.load(...).hash: a digest of the manifest content (no collisions).
PipfileHash(p) == [present |-> TRUE, packages |-> p.packages, devpackages |-> p.devpackages]
NoHash == [present |-> FALSE, packages |-> [n \in Names |-> "none"], devpackages |-> [n \in Names |-> "none"]]

\* An entry of a lock section (a dict): kind "str" is a string value, "vcs" a
\* table with a VCS key, "pin" a table {'version': '==v'[, 'hashes': [...]]}.
Entry(n, k, v, h) == [name |-> n, kind |-> k, version |-> v, hashes |-> h]

RECURSIVE SectionOf(_, _)
\* The dict a Pipfile section becomes, in name order.
SectionOf(sec, n) ==
    IF n > MaxName THEN << >>
    ELSE IF sec[n] = "none" THEN SectionOf(sec, n + 1)
    ELSE << Entry(n, sec[n], 0, FALSE) >> \o SectionOf(sec, n + 1)

\* project._lockfile: the lock structure derived from the current Pipfile,
\* with _meta.hash.sha256 set to the Pipfile's hash.
ProjectLockfile(p) ==
    [hash |-> PipfileHash(p), markers |-> 0,
     default |-> SectionOf(p.packages, 1), develop |-> SectionOf(p.devpackages, 1)]

\* Mutant: the cleanup deletes nothing.
CleanupNothing(s) == s

\* do_lock, "Cleanup lockfile": entries whose value is not a dict are deleted.
CleanupSection(s) == SelectSeq(s, LAMBDA e : e.kind # "str")

Range(s) == {s[i] : i \in 1..Len(s)}

HasKey(s, n) == \E i \in 1..Len(s) : s[i].name = n

\* Mutant: an existing key keeps its value.
DictKeepFirst(s, e) == IF HasKey(s, e.name) THEN s ELSE Append(s, e)

\* dict.update({name: value}): an existing key keeps its place and gets the
\* new value, a new key is added at the end.
DictUpdate(s, e) ==
    IF HasKey(s, e.name)
    THEN [i \in 1..Len(s) |-> IF s[i].name = e.name THEN e ELSE s[i]]
    ELSE Append(s, e)

RECURSIVE AddResults(_, _, _)
\* do_lock, "Add ... dependencies to lockfile": one update per result, in
\* the order the resolver returned them; hashes only when requested.
AddResults(s, results, no_hashes) ==
    IF results = << >> THEN s
    ELSE AddResults(DictUpdate(s, Entry(Head(results).name, "pin", Head(results).version, ~no_hashes)),
                    Tail(results), no_hashes)

MinName(s) == CHOOSE n \in {s[i].name : i \in 1..Len(s)} : \A j \in 1..Len(s) : n <= s[j].name

RECURSIVE SortKeys(_)
\* json.dump(..., sort_keys=True) on a section: entries by ascending key.
SortKeys(s) ==
    IF s = << >> THEN << >>
    ELSE LET m == MinName(s)
         IN  SelectSeq(s, LAMBDA e : e.name = m) \o SortKeys(SelectSeq(s, LAMBDA e : e.name # m))

\* Mutant: the document is written without _meta.hash.
JsonDumpNoHash(lf) ==
    [hash |-> NoHash, markers |-> lf.markers,
     default |-> SortKeys(lf.default), develop |-> SortKeys(lf.develop)]

\* Mutant: the document is written in the dicts' own order (no sort_keys).
JsonDumpUnsorted(lf) ==
    [hash |-> lf.hash, markers |-> lf.markers, default |-> lf.default, develop |-> lf.develop]

\* json.dump(lockfile, f, indent=4, separators=(',', ': '), sort_keys=True)
JsonDump(lf) ==
    [hash |-> lf.hash, markers |-> lf.markers,
     default |-> SortKeys(lf.default), develop |-> SortKeys(lf.develop)]

\* What resolve_deps can return: at most MaxRes packages, one per name.
ResultLists ==
    {res \in UNION {[1..n -> [name : Names, version : Versions]] : n \in 0..MaxRes} :
        \A i, j \in 1..Len(res) : i # j => res[i].name # res[j].name}

\* What resolve_deps returns if nothing keeps it from naming a package more
\* than once.
AnyResultLists == UNION {[1..n -> [name : Names, version : 1..MaxAnyVer]] : n \in 0..MaxRes}

\* What the host-marker probe can print: a JSON document of markers
\* (1..MaxMarker) or something that is not JSON (0).
ProbeOutputs == {0} \cup Markers

\* Mutant: whatever the probe printed is accepted.
JsonLoadsAnything(out) == TRUE

\* json.loads(c.out) returns (it raises on what is not JSON).
JsonLoadsOk(out) == out # 0

\* Pipfile.lock on disk.  st: "absent", "empty" (just truncated), "partial"
\* (some of the document written), "nonl" (the whole document, no final
\* newline yet), "complete".
EmptyDoc == [hash |-> NoHash, markers |-> 0, default |-> << >>, develop |-> << >>]
NoLockFile == [st |-> "absent", doc |-> EmptyDoc]
Readable(lk) == lk.st \in {"nonl", "complete"}

\* Mutant: a lock counts as matching whatever hash it records.
HashMatchesAlways(doc, p) == TRUE

\* Mutant: a lock without a recorded hash counts as matching.
HashMatchesIfRecorded(doc, p) == ~doc.hash.present \/ doc.hash = PipfileHash(p)

\* lockfile['_meta'].get('hash', {}).get('sha256') == p.hash
HashMatches(doc, p) == doc.hash.present /\ doc.hash = PipfileHash(p)

\* A Pipfile other than p (an earlier edit of it).
OtherPipfile(p) ==
    [p EXCEPT !.packages[1] = IF p.packages[1] = "none" THEN "str" ELSE "none"]

SampleDoc(h) ==
    [hash |-> h, markers |-> 1,
     default |-> << Entry(1, "pin", 1, TRUE) >>, develop |-> << >>]

InitLocks(p) ==
    {NoLockFile} \cup
    {[st |-> "complete", doc |-> SampleDoc(h)] : h \in {NoHash, PipfileHash(p), PipfileHash(OtherPipfile(p))}}

Sources == {[i \in 1..n |-> i] : n \in 0..MaxSources}

\* do_lock is called with no_hashes False by `lock` and `install pkg`, and
\* with do_init's default True by `install` and `update`.
DoLockArgs == [cmd : {"lock"}, dev : {FALSE}, requirements : {FALSE}, no_hashes : BOOLEAN,
               ignore_pipfile : {FALSE}, skip_lock : {FALSE}]

\* The arguments of do_init, and of do_download_dependencies (dev only).
InitArgs == [cmd : {"init"}, dev : BOOLEAN, requirements : BOOLEAN, no_hashes : BOOLEAN,
             ignore_pipfile : BOOLEAN, skip_lock : BOOLEAN]
DownloadArgs == [cmd : {"download"}, dev : BOOLEAN, requirements : {FALSE}, no_hashes : {TRUE},
                 ignore_pipfile : {FALSE}, skip_lock : {FALSE}]
LockArgs == [cmd : {"lock"}, dev : {FALSE}, requirements : {FALSE}, no_hashes : {FALSE},
             ignore_pipfile : {FALSE}, skip_lock : {FALSE}]
\* The `install` command with package names: --dev and --skip-lock are
\* options, lock and hashes are not (they are always True).
InstallArgs == [cmd : {"install"}, dev : BOOLEAN, requirements : {FALSE}, no_hashes : {FALSE},
                ignore_pipfile : {FALSE}, skip_lock : BOOLEAN]
PackageLists == UNION {[1..n -> Names] : n \in 1..MaxPkgs}
\* What `install` without a package name passes to do_init: requirements
\* and no_hashes keep their defaults.
EnvInitArgs == [cmd : {"init"}, dev : BOOLEAN, requirements : {FALSE}, no_hashes : {TRUE},
                ignore_pipfile : BOOLEAN, skip_lock : BOOLEAN]
NoArgs == [cmd |-> "none", dev |-> FALSE, requirements |-> FALSE, no_hashes |-> FALSE,
           ignore_pipfile |-> FALSE, skip_lock |-> FALSE]

\* split_vcs: the entries with a VCS key go to '<section>-vcs'.
NonVcs(s) == SelectSeq(s, LAMBDA e : e.kind # "vcs")
OnlyVcs(s) == SelectSeq(s, LAMBDA e : e.kind = "vcs")

RECURSIVE UpdateAll(_, _)
\* dict.update(other)
UpdateAll(s, other) ==
    IF other = << >> THEN s ELSE UpdateAll(DictUpdate(s, Head(other)), Tail(other))

\* convert_deps_to_pip on one entry, paired with its ignore_hashes flag: the
\* install argument carries --hash exactly when the entry has hashes.
PlanEntry(e, ignore_hash) ==
    [name |-> e.name, kind |-> e.kind, version |-> e.version,
     hashes |-> e.hashes, ignore_hash |-> ignore_hash]

\* Mutant: the develop group is merged whether dev was asked for or not.
DepsListDevAlways(lf, dev, only, ignore_hashes) ==
    LET deps0 == IF ~only THEN NonVcs(lf.default) ELSE << >>
        vcs0 == OnlyVcs(lf.default)
        deps == UpdateAll(deps0, NonVcs(lf.develop))
        vcs_deps == UpdateAll(vcs0, OnlyVcs(lf.develop))
    IN  [i \in 1..Len(deps) |-> PlanEntry(deps[i], ignore_hashes)]
        \o [i \in 1..Len(vcs_deps) |-> PlanEntry(vcs_deps[i], TRUE)]

\* Mutant: the VCS entries get the caller's ignore_hashes like the others.
DepsListVcsAsAsked(lf, dev, only, ignore_hashes) ==
    LET deps0 == IF ~only THEN NonVcs(lf.default) ELSE << >>
        vcs0 == OnlyVcs(lf.default)
        deps == IF dev THEN UpdateAll(deps0, NonVcs(lf.develop)) ELSE deps0
        vcs_deps == IF dev THEN UpdateAll(vcs0, OnlyVcs(lf.develop)) ELSE vcs0
    IN  [i \in 1..Len(deps) |-> PlanEntry(deps[i], ignore_hashes)]
        \o [i \in 1..Len(vcs_deps) |-> PlanEntry(vcs_deps[i], ignore_hashes)]

\* do_install_dependencies, "Install default dependencies, always" up to
\* deps_list: the plan built from a lock structure.
DepsList(lf, dev, only, ignore_hashes) ==
    LET deps0 == IF ~only THEN NonVcs(lf.default) ELSE << >>
        vcs0 == OnlyVcs(lf.default)
        deps == IF dev THEN UpdateAll(deps0, NonVcs(lf.develop)) ELSE deps0
        vcs_deps == IF dev THEN UpdateAll(vcs0, OnlyVcs(lf.develop)) ELSE vcs0
    IN  [i \in 1..Len(deps) |-> PlanEntry(deps[i], ignore_hashes)]
        \o [i \in 1..Len(vcs_deps) |-> PlanEntry(vcs_deps[i], TRUE)]

\* Mutant: the flag is left as the caller gave it.
KeepHashCheck(ignore_hashes, has_hash) == ignore_hashes

\* pip_install, "Skip hash-checking mode, when appropriate": the flag after
\* looking for '--hash' in the requirements file or the install argument.
SkipHashCheck(ignore_hashes, has_hash) == IF ~has_hash THEN TRUE ELSE ignore_hashes

\* Mutant: the loop goes on after a success and stops at a failure.
BreakOnFailure(code) == code # 0

\* Mutant: the loop never breaks.
NeverBreak(code) == FALSE

\* pip_install / pip_download: `if c.return_code == 0: break`
BreakOnSuccess(code) == code = 0

\* Mutant: no result counts as a failure.
NeverFailed(code) == FALSE

\* do_install_dependencies: `if c.return_code != 0` ... sys.exit(c.return_code)
InstallFailed(code) == code # 0

\* Python's truth value of pip_install's local no_deps, which holds the bool
\* it was called with and, from the first turn of the loop on, a string.
Truthy(x) == x \in {"True", "--no-deps"}

\* Mutant: only the bool the function was called with counts as true.
NoDepsFlagOfBool(x) == IF x = "True" THEN "--no-deps" ELSE ""

\* pip_install: no_deps = '--no-deps' if no_deps else ''
NoDepsFlag(x) == IF Truthy(x) THEN "--no-deps" ELSE ""

\* Mutant: dependency expansion is always switched off.
NoDepsEvenWithSkipLock(skip_lock) == "True"

\* do_install_dependencies, "Allow pip to resolve dependencies when in
\* skip-lock mode": no_deps = (not skip_lock)
InstallNoDeps(skip_lock) == IF ~skip_lock THEN "True" ELSE "False"

\* Mutant: the packages installed so far are taken out again.
RollBackOnError(env) == { }

\* do_install_dependencies, `if c.return_code != 0`: what becomes of the
\* virtualenv's packages between the failed pip_install and sys.exit (the
\* branch only echoes).
OnInstallError(env) == env

\* Mutant: the check of the installer's result always passes.
AssertNothing(code) == TRUE

\* install, "Ensure that package was successfully installed":
\* assert c.return_code == 0
AssertInstalled(code) == code = 0

\* install, `assert c.return_code == 0` ... `except AssertionError` ...
\* sys.exit(1): the exit status after a failed installer run.
InstallExitCode(code) == 1

\* project.add_package_to_pipfile(package_name, dev): the name is declared
\* in [dev-packages] or [packages] with a string specifier.
AddPackageToPipfile(p, n, dev) ==
    IF dev THEN [p EXCEPT !.devpackages[n] = "str"] ELSE [p EXCEPT !.packages[n] = "str"]

\* project.virtualenv_exists: the virtualenv directory is there ("partial":
\* a directory that a creation left unfinished).
VirtualenvExists(v) == v # "absent"

\* Mutant: the directory is left as it is.
RmtreeKeeps(v, ok) == v

\* cleanup_virtualenv: shutil.rmtree(project.virtualenv_location) removes
\* the directory, or raises OSError, which is swallowed.
Rmtree(v, ok) == IF ok THEN "absent" ELSE v

\* How shutil.rmtree can end: on a missing directory it raises OSError, on
\* an existing one it succeeds or raises OSError.
RmtreeOutcomes(v) == IF v = "absent" THEN {FALSE} ELSE {TRUE, FALSE}

\* How do_create_virtualenv can end, and the directory it leaves: the
\* environment manager succeeds, or exits with an error (its exit code is
\* not looked at), or the user interrupts it (KeyboardInterrupt).
CreateOutcomes ==
    {[how |-> "ok", venv |-> "exists"],
     [how |-> "failed", venv |-> "absent"],
     [how |-> "failed", venv |-> "partial"],
     [how |-> "interrupt", venv |-> "absent"],
     [how |-> "interrupt", venv |-> "partial"],
     [how |-> "interrupt", venv |-> "exists"]}

\* A parsed Pipfile section as proper_case_section gets it: a dict from the
\* declared spelling of a name to what is declared for it, in file order.
Keys == 1..MaxKey
Values == 1..MaxValue
ParsedSections ==
    {sec \in UNION {[1..n -> [name : Keys, value : Values]] : n \in 0..MaxSection} :
        \A i, j \in 1..Len(sec) : i # j => sec[i].name # sec[j].name}

\* proper_case(dep): for every spelling the canonical spelling the index
\* knows, or 0 when the lookup raises IOError.  The canonical spelling of a
\* canonical spelling is itself (or that lookup fails).
ProperCase ==
    {f \in [Keys -> Keys \cup {0}] : \A k \in Keys : f[k] # 0 => f[f[k]] \in {0, f[k]}}

DictKeys(sec) == [i \in 1..Len(sec) |-> sec[i].name]
DictGet(sec, k) == (CHOOSE e \in Range(sec) : e.name = k).value
DictDel(sec, k) == SelectSeq(sec, LAMBDA e : e.name # k)

\* Mutant: every declared name is looked up.
AllNames(sec, names) == DictKeys(sec)

\* proper_case_section:
\* unknown_names = [k for k in section.keys() if k not in set(project.proper_names)]
UnknownNames(sec, names) == SelectSeq(DictKeys(sec), LAMBDA k : k \notin names)

\* project.register_proper_name(new_casing)
RegisterProperName(names, k) == names \cup {k}

\* proper_case_section, "Replace old value with new value":
\* old_value = section[dep]; section[new_casing] = old_value; del section[dep]
RenameKey(sec, dep, new_casing) ==
    DictDel(DictUpdate(sec, [name |-> new_casing, value |-> DictGet(sec, dep)]), dep)

\* The installer: with --require-hashes and no hash given it refuses to
\* install; otherwise the outcome is the source's.
PipOutcomes(require_hashes, has_hash) ==
    IF require_hashes /\ ~has_hash THEN ExitCodes \ {0} ELSE ExitCodes

\* ------------------------------------------------------------------ state
\* Strings are sequences of characters.
Digits == {"0", "1", "2", "3", "4", "5", "6", "7", "8", "9"}

RECURSIVE SplitOn(_, _)
\* str.split(sep) for a one-character sep: the pieces between the seps.
SplitOn(s, sep) ==
    IF \E i \in 1..Len(s) : s[i] = sep
    THEN LET i == CHOOSE k \in 1..Len(s) : s[k] = sep /\ \A j \in 1..(k - 1) : s[j] # sep
         IN  << SubSeq(s, 1, i - 1) >> \o SplitOn(SubSeq(s, i + 1, Len(s)), sep)
    ELSE << s >>

RECURSIVE Join(_, _)
\* sep.join(pieces)
Join(pieces, sep) ==
    IF pieces = << >> THEN << >>
    ELSE IF Len(pieces) = 1 THEN pieces[1]
    ELSE pieces[1] \o << sep >> \o Join(Tail(pieces), sep)

\* os.path.splitext on a name without directory: the extension starts at
\* the last dot, unless only dots come before it.
SplitExt(s) ==
    LET dots == {i \in 1..Len(s) : s[i] = "."}
    IN  IF dots = { } THEN << s, << >> >>
        ELSE LET i == CHOOSE k \in dots : \A j \in dots : j <= k
             IN  IF \A j \in 1..(i - 1) : s[j] = "." THEN << s, << >> >>
                 ELSE << SubSeq(s, 1, i - 1), SubSeq(s, i, Len(s)) >>

\* s.endswith(t)
EndsWith(s, t) == Len(s) >= Len(t) /\ SubSeq(s, Len(s) - Len(t) + 1, Len(s)) = t

\* s[n:]
From(s, n) == SubSeq(s, n + 1, Len(s))

\* pieces[:-3]
AllButLast3(pieces) == SubSeq(pieces, 1, Len(pieces) - 3)

\* str.isdigit()
IsDigit(s) == s # << >> /\ \A i \in 1..Len(s) : s[i] \in Digits

\* Mutant: the version is returned with whatever follows its first dash.
KeepImplicitPost(v) == v

\* parse_download_fname, "Ignore implicit post releases in version number."
DropImplicitPost(v) ==
    LET pieces == SplitOn(v, "-")
    IN  IF Len(pieces) >= 2 /\ IsDigit(pieces[2]) THEN pieces[1] ELSE v

\* parse_download_fname(fname, name)
ParseDownloadFname(file, pkg) ==
    LET split == SplitExt(file)
        stem == IF split[2] = << ".", "w", "h", "l" >>
                THEN Join(AllButLast3(SplitOn(split[1], "-")), "-")
                ELSE split[1]
        base == IF EndsWith(stem, << ".", "t", "a", "r" >>) THEN SplitExt(stem)[1] ELSE stem
    IN  DropImplicitPost(From(base, Len(pkg) + 1))

\* The downloaded files looked at: '<name>-<version><post><suffix>'.
FileNamesOf == {<< "a", "l", "p", "h", "a" >>, << "a", "-", "b" >>}
FileVersions == {<< "1", ".", "2", ".", "3" >>, << "1", ".", "0" >>, << "2" >>}
ExplicitPost == << ".", "p", "o", "s", "t", "1" >>
ImplicitPost == << "-", "1" >>
FilePosts == {<< >>, ExplicitPost, ImplicitPost, << "-", "1", "2" >>}
Wheel == << "-", "p", "y", "3", "-", "n", "o", "n", "e", "-", "a", "n", "y", ".", "w", "h", "l" >>
TarGz == << ".", "t", "a", "r", ".", "g", "z" >>
FileSuffixes == {Wheel, TarGz, << ".", "z", "i", "p" >>, << ".", "t", "a", "r", ".", "b", "z", "2" >>}
FileName(n, v, p, x) == n \o << "-" >> \o v \o p \o x

\* The installer's output is a sequence of tokens: the words the parser
\* looks for, the newline, and single characters.
OutputLineSet ==
    {<< "Collecting ", "a" >>,
     << "Collecting ", "b", " ", "(", "a", ")" >>,
     << "x", "Collecting ", "b", ";", "x" >>,
     << "Saved ", "d", "/", "a" >>,
     << " ", "Saved ", "b" >>,
     << "Using cached ", "b" >>,
     << "Saved " >>,
     << "x" >>}
Outputs == UNION {{Join(ls, "\n") : ls \in [1..n -> OutputLineSet]} : n \in 0..MaxLines}

\* str.strip() on tokens: a blank at either end goes.
Strip(s) ==
    LET a == IF s # << >> /\ Head(s) = " " THEN Tail(s) ELSE s
    IN  IF a # << >> /\ a[Len(a)] = " " THEN SubSeq(a, 1, Len(a) - 1) ELSE a

\* parse_install_output: the name line without '(...' and ';...', stripped.
\* pep423_name leaves these names as they are.
SectionName(line) == Strip(SplitOn(SplitOn(line, "(")[1], ";")[1])

\* parse.parse('Saved {file}', line.strip()), or failing that
\* parse.parse('Using cached {file}', line.strip()): the file matched, or
\* << >> for None.  A line that is only the word has nothing for {file}.
MatchFile(line) ==
    IF Len(line) >= 2 /\ line[1] = "Saved " THEN Tail(line)
    ELSE IF Len(line) >= 2 /\ line[1] = "Using cached " THEN Tail(line)
    ELSE << >>

\* r['file'].split(os.sep)[-1]
Basename(file) == LET parts == SplitOn(file, "/") IN parts[Len(parts)]

\* Mutant: the lines after a match are looked at as well.
GoOnAfterMatch(rest) == rest

\* parse_install_output: `break` after names.append(...)
BreakAfterMatch(rest) == << >>

RECURSIVE ScanLines(_, _)
\* parse_install_output, `for line in lines`: what it appends to names.
ScanLines(lines, nm) ==
    IF lines = << >> THEN << >>
    ELSE IF MatchFile(Strip(Head(lines))) = << >> THEN ScanLines(Tail(lines), nm)
    ELSE << [file |-> Basename(MatchFile(Strip(Head(lines)))), name |-> nm] >>
         \o BreakAfterMatch(ScanLines(Tail(lines), nm))

RECURSIVE ScanSections(_)
\* parse_install_output, `for section in output_sections`
ScanSections(secs) ==
    IF secs = << >> THEN << >>
    ELSE LET lines == SplitOn(Head(secs), "\n")
         IN  ScanLines(lines, SectionName(lines[1])) \o ScanSections(Tail(secs))

\* parse_install_output(output)
ParseInstallOutput(out) == ScanSections(SplitOn(out, "Collecting "))

\* BAD_PACKAGES
BAD_PACKAGES ==
    << << "s", "e", "t", "u", "p", "t", "o", "o", "l", "s" >>,
       << "p", "i", "p" >>,
       << "w", "h", "e", "e", "l" >>,
       << "s", "i", "x" >>,
       << "p", "a", "c", "k", "a", "g", "i", "n", "g" >>,
       << "p", "y", "p", "a", "r", "s", "i", "n", "g" >>,
       << "a", "p", "p", "d", "i", "r", "s" >> >>

\* The lines `pip freeze` can print: 'pip==9', 'pipenv==8', 'six==1',
\* 'wheel==0', 'requests==2'.
FreezeLines ==
    {<< "p", "i", "p", "=", "=", "9" >>,
     << "p", "i", "p", "e", "n", "v", "=", "=", "8" >>,
     << "s", "i", "x", "=", "=", "1" >>,
     << "w", "h", "e", "e", "l", "=", "=", "0" >>,
     << "r", "e", "q", "u", "e", "s", "t", "s", "=", "=", "2" >>}

\* Two of them, by number.
FreezeLine(k) ==
    IF k = 1 THEN << "p", "i", "p", "=", "=", "9" >>
    ELSE << "r", "e", "q", "u", "e", "s", "t", "s", "=", "=", "2" >>

\* freeze.split(): every package once, in any order.
FreezeOutputs ==
    UNION {{f \in [1..n -> FreezeLines] : \A i, j \in 1..n : i # j => f[i] # f[j]} : n \in 0..MaxFreeze}

\* s.startswith(t)
StartsWith(s, t) == Len(s) >= Len(t) /\ SubSeq(s, 1, Len(t)) = t

\* del lst[i]
DelAt(lst, i) == SubSeq(lst, 1, i - 1) \o SubSeq(lst, i + 1, Len(lst))

RECURSIVE DelWhileEnumerating(_, _, _)
\* do_purge, `for i, package in enumerate(installed): if
\* package.startswith(package_name): del installed[i]` from position i on:
\* the enumeration goes on to the next position of the list as it now is.
DelWhileEnumerating(lst, i, package_name) ==
    IF i > Len(lst) THEN lst
    ELSE IF StartsWith(lst[i], package_name)
    THEN DelWhileEnumerating(DelAt(lst, i), i + 1, package_name)
    ELSE DelWhileEnumerating(lst, i + 1, package_name)

RECURSIVE RemoveBadPackages(_, _)
\* do_purge, "Remove setuptools and friends from installed, if present":
\* `for package_name in BAD_PACKAGES`
RemoveBadPackages(lst, bad) ==
    IF bad = << >> THEN lst
    ELSE RemoveBadPackages(DelWhileEnumerating(lst, 1, Head(bad)), Tail(bad))

\* The arguments of a run of `uninstall --all`.
PurgeArgs == [cmd |-> "uninstall", dev |-> FALSE, requirements |-> FALSE, no_hashes |-> FALSE,
              ignore_pipfile |-> FALSE, skip_lock |-> FALSE]

\* What `pip freeze` lists in a virtualenv that holds the packages of site,
\* as update reads it into installed_packages: the version listed for a
\* name, 0 for a name that is not listed (no key).
FreezeVersions(site) ==
    {inst \in [Names -> 0..MaxAnyVer] : \A n \in Names : inst[n] # 0 <=> n \in site}

RECURSIVE CheckUpdates(_, _, _)
\* update --dry-run, `for result in resolve_deps(...)`: a resolved package
\* whose version is not the one installed sets updates; one that is not
\* installed raises KeyError, which is passed over.
CheckUpdates(res, installed_packages, updates) ==
    IF res = << >> THEN updates
    ELSE IF installed_packages[Head(res).name] = 0
    THEN CheckUpdates(Tail(res), installed_packages, updates)
    ELSE IF Head(res).version # installed_packages[Head(res).name]
    THEN CheckUpdates(Tail(res), installed_packages, TRUE)
    ELSE CheckUpdates(Tail(res), installed_packages, updates)

\* Mutant: the dry run always ends with exit code 0.
DryRunExitZero(updates) == 0

\* update --dry-run, `sys.exit(int(updates))`
DryRunExit(updates) == IF updates THEN 1 ELSE 0

\* The arguments of a run of `update`: with --dry-run do_init is not called,
\* without it the call is do_init(dev=dev, verbose=verbose).
UpdateArgs(dry, dev) ==
    [cmd |-> IF dry THEN "update" ELSE "init", dev |-> dev, requirements |-> FALSE,
     no_hashes |-> ~dry, ignore_pipfile |-> FALSE, skip_lock |-> FALSE]

VARIABLES
    pipfile,      \* the Pipfile (manifest)
    sources,      \* project.sources, in declared order
    lockDisk,     \* Pipfile.lock on disk
    args,         \* the arguments of the current run
    pc,           \* position of the current run
    ret,          \* where do_lock returns to
    lockfile,     \* do_lock's local `lockfile`
    results,      \* what resolve_deps returned to do_lock, per group
    deps_list,    \* do_install_dependencies' plan
    di,           \* index of the plan entry being installed
    si,           \* pip_install / pip_download: index of the next source
    c,            \* pip_install / pip_download: the last process result
    ignore,       \* pip_install's local ignore_hashes
    r,            \* pip_install's local r: a requirements file was written
    no_deps,      \* pip_install's local no_deps
    site,         \* the packages installed in the virtualenv
    attempts,     \* history: installer invocations of the current pip call
    installed,    \* history: plan entries installed by the current run
    relocks,      \* history: do_lock calls made by the current run
    written,      \* history: the lock on disk is a finished do_lock's output
    lock0,        \* history: Pipfile.lock as it was when the run started
    locked,       \* history: the packages the finished do_lock got, per group
    resolved,     \* history: the groups do_lock has resolved
    probe,        \* history: what the host-marker probe printed (-1: not run)
    exitCode,     \* exit status of the current run, -1 while it runs
    err,          \* the exception that ended the run, if any
    package_names,\* install: the packages named on the command line
    added,        \* history: the names install added to the Pipfile
    venv,         \* the virtualenv directory: "absent", "partial", "exists"
    python,       \* --python or --three/--two was given
    depth,        \* ensure_virtualenv: the depth of its recursion
    envlog,       \* history: what happened to the virtualenv in this run
    section,      \* proper_case_section: the section it works on
    proper_names, \* project.proper_names, the registry of canonical names
    unknown_names,\* proper_case_section's local unknown_names
    dep_i,        \* proper_case_section: index of dep in unknown_names
    changed_values, \* proper_case_section's local changed_values
    proper_case,  \* what proper_case answers for each spelling
    looked,       \* history: the spellings looked up, in order
    section0,     \* history: the section when proper_case_section was called
    proper_names0,\* history: the registry when proper_case_section was called
    fname,        \* parse_download_fname: the file name, a string of characters
    name,         \* parse_download_fname: the package name
    version,      \* what parse_download_fname returned
    output,       \* parse_install_output: the installer's output, a text
    names,        \* what parse_install_output returned
    freeze,       \* do_purge: the entries of the freeze output, in order
    uninstall,    \* do_purge: the list handed to the uninstall command
    purged,       \* history: do_purge has run
    dry_run,      \* update: --dry-run was given
    installed_packages, \* update --dry-run: the installed version of each name (0: none)
    resolution,   \* history: what resolve_deps returned to update --dry-run
    updates       \* update --dry-run's local updates

vars == << pipfile, sources, lockDisk, lock0, locked, args, pc, ret, lockfile, results,
           deps_list, di, si, c, ignore, r, no_deps, site, attempts, installed, relocks, written, resolved, probe,
           exitCode, err, package_names, added, venv, python, depth, envlog,
           section, proper_names, unknown_names, dep_i, changed_values, proper_case,
           looked, section0, proper_names0, fname, name, version, output, names,
           freeze, uninstall, purged, dry_run, installed_packages, resolution, updates >>

pkgVars == << package_names, added >>
envVars == << venv, python, depth, envlog >>
caseVars == << section, proper_names, unknown_names, dep_i, changed_values, proper_case,
              looked, section0, proper_names0 >>
parseVars == << fname, name, version, output, names >>
purgeVars == << freeze, uninstall, purged >>
updVars == << dry_run, installed_packages, resolution, updates >>
idleVars == << pkgVars, envVars, caseVars, parseVars, purgeVars, updVars >>
NoEnvLog == [creations |-> 0, removals |-> 0, create_failed |-> FALSE, remove_failed |-> FALSE,
             interrupted |-> "no", cleanup |-> "none"]
persistent == << pipfile, sources, lock0 >>
NoLocked == [develop |-> { }, default |-> { }]
lockVars == << lockfile, results >>
lockHist == << resolved, probe, locked >>
planVars == << deps_list, di >>
pipVars == << si, c, ignore, r, no_deps >>

NoResult == [source |-> 0, code |-> -1]
NoResults == [develop |-> << >>, default |-> << >>]

\* No command has run yet.
InitRun ==
    /\ args = NoArgs
    /\ pc = "idle"
    /\ ret = "idle"
    /\ lockfile = EmptyDoc
    /\ results = NoResults
    /\ deps_list = << >>
    /\ di = 0
    /\ si = 0
    /\ c = NoResult
    /\ ignore = FALSE
    /\ r = FALSE
    /\ no_deps = ""
    /\ site = { }
    /\ attempts = << >>
    /\ installed = << >>
    /\ relocks = 0
    /\ written = FALSE
    /\ lock0 = lockDisk
    /\ locked = NoLocked
    /\ resolved = { }
    /\ probe = -1
    /\ exitCode = -1
    /\ err = "none"
    /\ package_names = << >>
    /\ added = << >>
    /\ python = FALSE
    /\ depth = 0
    /\ envlog = NoEnvLog
    /\ unknown_names = << >>
    /\ dep_i = 0
    /\ changed_values = FALSE
    /\ looked = << >>

\* proper_case_section is not looked at: an empty section and registry.
NoCasing ==
    /\ section = << >>
    /\ proper_names = { }
    /\ proper_case = [k \in Keys |-> 0]
    /\ section0 = section
    /\ proper_names0 = proper_names

\* The parsers of the installer's output are not looked at.
NoParsing ==
    /\ fname = << >>
    /\ name = << >>
    /\ version = << >>
    /\ output = << >>
    /\ names = << >>

\* do_purge and update are not looked at.
NoPurging ==
    /\ freeze = << >>
    /\ uninstall = << >>
    /\ purged = FALSE
    /\ dry_run = FALSE
    /\ installed_packages = [n \in Names |-> 0]
    /\ resolution = << >>
    /\ updates = FALSE

\* A project with its virtualenv in place.
Init ==
    /\ pipfile \in Manifests
    /\ sources \in Sources
    /\ lockDisk \in InitLocks(pipfile)
    /\ venv = "exists"
    /\ InitRun
    /\ NoCasing
    /\ NoParsing
    /\ NoPurging

EnvManifests ==
    {p \in Manifests :
        Cardinality(Declared(p.packages)) + Cardinality(Declared(p.devpackages)) <= MaxEnvDecl}

\* A project whose virtualenv may not exist yet.
InitEnv ==
    /\ pipfile \in EnvManifests
    /\ sources \in Sources
    /\ lockDisk \in InitLocks(pipfile)
    /\ venv \in {"absent", "exists"}
    /\ InitRun
    /\ NoCasing
    /\ NoParsing
    /\ NoPurging

\* A project about to be locked.
InitLockAny ==
    /\ pipfile \in Manifests
    /\ sources = << 1 >>
    /\ lockDisk \in {NoLockFile, [st |-> "complete", doc |-> SampleDoc(PipfileHash(pipfile))]}
    /\ venv = "exists"
    /\ InitRun
    /\ NoCasing
    /\ NoParsing
    /\ NoPurging

\* A parsed Pipfile section, a registry and an index for proper_case_section.
InitCase ==
    /\ pipfile = [packages |-> [n \in Names |-> "none"], devpackages |-> [n \in Names |-> "none"]]
    /\ sources = << >>
    /\ lockDisk = NoLockFile
    /\ venv = "exists"
    /\ InitRun
    /\ section \in ParsedSections
    /\ proper_names \in SUBSET Keys
    /\ proper_case \in ProperCase
    /\ section0 = section
    /\ proper_names0 = proper_names
    /\ NoParsing
    /\ NoPurging

\* The run ends: sys.exit(code), or an uncaught exception (exit status 1).
\* do_lock's locals are gone with the process.
Exit(code, e) ==
    /\ pc' = "done"
    /\ exitCode' = code
    /\ err' = e
    /\ lockfile' = EmptyDoc
    /\ results' = NoResults

\* A command starts: `install` without a package name, `lock -r` and
\* `update` all reach do_init.
StartInit ==
    /\ pc = "idle"
    /\ \E a \in InitArgs : args' = a
    /\ pc' = "init_venv"
    /\ ret' = "idle"
    /\ lockfile' = EmptyDoc
    /\ results' = NoResults
    /\ deps_list' = << >>
    /\ di' = 0
    /\ si' = 0
    /\ c' = NoResult
    /\ ignore' = FALSE
    /\ r' = FALSE
    /\ no_deps' = ""
    /\ attempts' = << >>
    /\ installed' = << >>
    /\ relocks' = 0
    /\ exitCode' = -1
    /\ err' = "none"
    /\ UNCHANGED << persistent, idleVars, site, lockDisk, written, lockHist >>

\* The `lock` command without --requirements: do_lock(no_hashes=not hashes),
\* and hashes has no option (it is always True).
StartLock ==
    /\ pc = "idle"
    /\ \E a \in LockArgs : args' = a
    /\ pc' = "lock_develop"
    /\ ret' = "return"
    /\ lockfile' = EmptyDoc
    /\ results' = NoResults
    /\ deps_list' = << >>
    /\ di' = 0
    /\ si' = 0
    /\ c' = NoResult
    /\ ignore' = FALSE
    /\ r' = FALSE
    /\ no_deps' = ""
    /\ attempts' = << >>
    /\ installed' = << >>
    /\ relocks' = 1
    /\ exitCode' = -1
    /\ err' = "none"
    /\ UNCHANGED << persistent, idleVars, site, lockDisk, written, lockHist >>

\* The command function returns: the run ends with exit status 0.
Return ==
    /\ pc = "return"
    /\ Exit(0, "none")
    /\ UNCHANGED << persistent, idleVars, site, lockDisk, args, ret, planVars, pipVars,
                    attempts, installed, relocks, written, lockHist >>

\* do_init up to the virtualenv: it is created when it does not exist.
DoInitVenv ==
    /\ pc = "init_venv"
    /\ pc' = IF ~VirtualenvExists(venv) THEN "create_venv_i" ELSE "init_stale"
    /\ UNCHANGED << persistent, idleVars, site, lockDisk, args, ret, lockVars, planVars, pipVars,
                    attempts, installed, relocks, written, lockHist, exitCode, err >>

\* project.lockfile_exists
LockfileExists == lockDisk.st # "absent"

\* do_init, "Write out the lockfile if it doesn't exist, but not if the
\* Pipfile is being ignored": the lock is read and do_lock is called when
\* its recorded hash is not the Pipfile's.
DoInitStale ==
    /\ pc = "init_stale"
    /\ IF LockfileExists /\ ~args.ignore_pipfile /\ ~args.skip_lock
       THEN IF ~Readable(lockDisk)
            THEN /\ Exit(1, "ValueError")     \* json.load fails
                 /\ UNCHANGED << ret, relocks >>
            ELSE IF ~HashMatches(lockDisk.doc, pipfile)
                 THEN /\ pc' = "lock_develop"
                      /\ ret' = "init_missing"
                      /\ relocks' = relocks + 1
                      /\ UNCHANGED << lockVars, exitCode, err >>
                 ELSE /\ pc' = "init_missing"
                      /\ UNCHANGED << ret, relocks, lockVars, exitCode, err >>
       ELSE /\ pc' = "init_missing"
            /\ UNCHANGED << ret, relocks, lockVars, exitCode, err >>
    /\ UNCHANGED << persistent, idleVars, site, lockDisk, args, planVars, pipVars,
                    attempts, installed, written, lockHist >>

\* Mutant: the lock is written when it is missing, skip-lock or not.
NotFoundEvenWithSkipLock(exists, skip_lock) == ~exists

\* do_init: `if not project.lockfile_exists and not skip_lock`
LockNotFound(exists, skip_lock) == ~exists /\ ~skip_lock

\* do_init, "Write out the lockfile if it doesn't exist."
DoInitMissing ==
    /\ pc = "init_missing"
    /\ IF LockNotFound(LockfileExists, args.skip_lock)
       THEN /\ pc' = "lock_develop"
            /\ ret' = "install_plan"
            /\ relocks' = relocks + 1
       ELSE /\ pc' = "install_plan"
            /\ UNCHANGED << ret, relocks >>
    /\ UNCHANGED << persistent, idleVars, site, lockDisk, args, lockVars, planVars, pipVars,
                    attempts, installed, written, lockHist, exitCode, err >>

\* do_lock up to the develop group: the lock structure is built from the
\* Pipfile, non-dict entries are removed, the dev-packages are resolved and
\* the results added.  resolve_deps raises when the resolution fails.
LockDevelop(Resolutions) ==
    /\ pc = "lock_develop"
    /\ \/ \E res \in Resolutions :
            LET lf == ProjectLockfile(pipfile)
                clean == [lf EXCEPT !.default = CleanupSection(lf.default),
                                    !.develop = CleanupSection(lf.develop)]
            IN  /\ lockfile' = [clean EXCEPT !.develop = AddResults(clean.develop, res, args.no_hashes)]
                /\ results' = [results EXCEPT !.develop = res]
                /\ resolved' = resolved \cup {"develop"}
                /\ pc' = "lock_default"
                /\ UNCHANGED << exitCode, err >>
       \/ /\ Exit(1, "ResolutionError")
          /\ UNCHANGED resolved
    /\ UNCHANGED << persistent, idleVars, site, lockDisk, args, ret, planVars, pipVars,
                    attempts, installed, relocks, written, probe, locked >>

DoLockDevelop == LockDevelop(ResultLists)

\* do_lock, the default group.
LockDefault(Resolutions) ==
    /\ pc = "lock_default"
    /\ \/ \E res \in Resolutions :
            /\ lockfile' = [lockfile EXCEPT !.default = AddResults(lockfile.default, res, args.no_hashes)]
            /\ results' = [results EXCEPT !.default = res]
            /\ resolved' = resolved \cup {"default"}
            /\ pc' = "lock_probe"
            /\ UNCHANGED << exitCode, err >>
       \/ /\ Exit(1, "ResolutionError")
          /\ UNCHANGED resolved
    /\ UNCHANGED << persistent, idleVars, site, lockDisk, args, ret, planVars, pipVars,
                    attempts, installed, relocks, written, probe, locked >>

DoLockDefault == LockDefault(ResultLists)

\* do_lock with a resolver that may name a package more than once.
DoLockDevelopAny == LockDevelop(AnyResultLists)
DoLockDefaultAny == LockDefault(AnyResultLists)

\* do_lock, the PEP 508 checker: what it printed is parsed by json.loads
\* (which raises ValueError on anything but JSON) and stored as
\* _meta.host-environment-markers.
DoLockProbe ==
    /\ pc = "lock_probe"
    /\ \E out \in ProbeOutputs :
         /\ probe' = out
         /\ IF JsonLoadsOk(out)
            THEN /\ lockfile' = [lockfile EXCEPT !.markers = out]
                 /\ pc' = "lock_open"
                 /\ UNCHANGED << results, exitCode, err >>
            ELSE Exit(1, "ValueError")
    /\ UNCHANGED << persistent, idleVars, site, lockDisk, args, ret, planVars, pipVars,
                    attempts, installed, relocks, written, resolved, locked >>

\* do_lock, open(project.lockfile_location, 'w'): the file is created or
\* truncated in place.
DoLockOpen ==
    /\ pc = "lock_open"
    /\ lockDisk' = [st |-> "empty", doc |-> EmptyDoc]
    /\ written' = FALSE
    /\ pc' = "lock_dump"
    /\ UNCHANGED << persistent, idleVars, site, args, ret, lockVars, planVars, pipVars,
                    attempts, installed, relocks, lockHist, exitCode, err >>

\* do_lock, json.dump streams the document into the open file.
DoLockDump ==
    /\ pc = "lock_dump"
    /\ \/ /\ lockDisk.st = "empty"
          /\ lockDisk' = [lockDisk EXCEPT !.st = "partial"]
          /\ pc' = "lock_dump"
       \/ /\ lockDisk' = [st |-> "nonl", doc |-> JsonDump(lockfile)]
          /\ pc' = "lock_newline"
    /\ UNCHANGED << persistent, idleVars, site, args, ret, lockVars, planVars, pipVars,
                    attempts, installed, relocks, written, lockHist, exitCode, err >>

\* do_lock, f.write('\n') and the end of the `with` block; do_lock returns.
DoLockNewline ==
    /\ pc = "lock_newline"
    /\ lockDisk' = [lockDisk EXCEPT !.st = "complete"]
    /\ written' = TRUE
    /\ locked' = [develop |-> Range(results.develop), default |-> Range(results.default)]
    /\ lockfile' = EmptyDoc
    /\ results' = NoResults
    /\ pc' = ret
    /\ UNCHANGED << persistent, idleVars, site, args, ret, planVars, pipVars,
                    attempts, installed, relocks, resolved, probe, exitCode, err >>

\* A command calls do_lock(no_hashes) as its last step.
StartDoLock ==
    /\ pc = "idle"
    /\ \E a \in DoLockArgs : args' = a
    /\ pc' = "lock_develop"
    /\ ret' = "return"
    /\ relocks' = 1
    /\ UNCHANGED << persistent, idleVars, site, lockDisk, lockVars, planVars, pipVars,
                    attempts, installed, written, lockHist, exitCode, err >>

\* The process is killed while the lock file is open for writing.
Crash ==
    /\ pc \in {"lock_dump", "lock_newline"}
    /\ Exit(137, "killed")
    /\ UNCHANGED << persistent, idleVars, site, lockDisk, args, ret, planVars, pipVars,
                    attempts, installed, relocks, written, lockHist >>

\* Mutant: the first assignment is the last.
IgnoreHashesAsAsked(ignore_hashes, no_hashes) == ignore_hashes \/ no_hashes

\* do_init, "Override default `ignore_hashes` value if `no_hashes` set":
\* ignore_hashes = ignore_hashes or no_hashes; ignore_hashes = False
InitIgnoreHashes(ignore_hashes, no_hashes) == FALSE

\* Mutant: the plan is installed in requirements mode too.
InstallAnyway(requirements) == FALSE

\* do_install_dependencies, "Output only default dependencies":
\* `if requirements:` echo the plan, sys.exit(0)
EmitAndExit(requirements) == requirements

\* do_install_dependencies up to the plan: the lock structure is taken from
\* the Pipfile or from Pipfile.lock; with --requirements the plan is printed
\* and the run ends.  do_init passes neither bare nor only.
DoInstallPlan ==
    /\ pc = "install_plan"
    /\ LET bare == args.requirements
           only == FALSE
           fromPipfile == args.skip_lock \/ only \/ ~LockfileExists
       IN  IF fromPipfile /\ bare
           THEN /\ Exit(1, "UnboundLocalError")      \* `lockfile` was never assigned
                /\ UNCHANGED planVars
           ELSE IF ~fromPipfile /\ ~Readable(lockDisk)
           THEN /\ Exit(1, "ValueError")             \* json.load fails
                /\ UNCHANGED planVars
           ELSE /\ \E ignore_hashes \in BOOLEAN :
                     deps_list' = DepsList(IF fromPipfile THEN ProjectLockfile(pipfile) ELSE lockDisk.doc,
                                           args.dev, only,
                                           InitIgnoreHashes(ignore_hashes, args.no_hashes))
                /\ IF EmitAndExit(args.requirements)
                   THEN /\ Exit(0, "none")
                        /\ UNCHANGED di
                   ELSE /\ pc' = "install_loop"
                        /\ di' = 1
                        /\ UNCHANGED << lockVars, exitCode, err >>
    /\ UNCHANGED << persistent, idleVars, site, lockDisk, args, ret, pipVars,
                    attempts, installed, relocks, written, lockHist >>

\* do_install_dependencies, the head of the install loop: the call of
\* pip_install for the next entry (up to the first source), or the end of
\* the plan and of the run.
PipInstallBegin ==
    /\ pc = "install_loop"
    /\ IF di > Len(deps_list)
       THEN /\ Exit(0, "none")
            /\ UNCHANGED pipVars
       ELSE /\ ignore' = deps_list[di].ignore_hash
            /\ r' = ~deps_list[di].ignore_hash
            /\ no_deps' = InstallNoDeps(args.skip_lock)
            /\ si' = 1
            /\ c' = NoResult
            /\ pc' = IF sources = << >> THEN "pip_return" ELSE "pip_loop"
            /\ UNCHANGED << lockVars, exitCode, err >>
    /\ attempts' = << >>
    /\ UNCHANGED << persistent, idleVars, site, lockDisk, args, ret, planVars,
                    installed, relocks, written, lockHist >>

\* pip_install, one turn of `for source in project.sources` for the install
\* argument e: the flags are worked out, the installer runs, the loop ends
\* on exit code 0 or after the last source.
PipInstallTurn(e) ==
    LET ignore2 == SkipHashCheck(ignore, e.hashes)
        require == ~ignore2
    IN  \E code \in PipOutcomes(require, e.hashes) :
          /\ ignore' = ignore2
          /\ c' = [source |-> sources[si], code |-> code]
          /\ attempts' = Append(attempts,
                 [cmd |-> "install", entry |-> di, source |-> sources[si],
                  arg |-> [file |-> r, name |-> e.name], require_hashes |-> require, no_deps |-> NoDepsFlag(no_deps), code |-> code])
          /\ no_deps' = NoDepsFlag(no_deps)
          /\ site' = IF code = 0 THEN site \cup {e.name} ELSE site
          /\ IF BreakOnSuccess(code) \/ si = Len(sources)
             THEN pc' = "pip_return" /\ UNCHANGED si
             ELSE pc' = "pip_loop" /\ si' = si + 1

\* pip_install called by do_install_dependencies for the current plan entry.
PipInstallAttempt ==
    /\ pc = "pip_loop"
    /\ args.cmd = "init"
    /\ PipInstallTurn(deps_list[di])
    /\ UNCHANGED << persistent, idleVars, lockDisk, args, ret, lockVars, planVars, r,
                    installed, relocks, written, lockHist, exitCode, err >>

\* pip_install's `return c`, and what do_install_dependencies does with it.
PipInstallReturn ==
    /\ pc = "pip_return"
    /\ args.cmd = "init"
    /\ IF c = NoResult
       THEN /\ Exit(1, "UnboundLocalError")          \* `c` was never assigned
            /\ UNCHANGED << di, site >>
       ELSE IF InstallFailed(c.code)
       THEN /\ Exit(c.code, "none")
            /\ site' = OnInstallError(site)
            /\ UNCHANGED di
       ELSE /\ di' = di + 1
            /\ pc' = "install_loop"
            /\ UNCHANGED << site, lockVars, exitCode, err >>
    /\ installed' = IF c.code = 0 THEN Append(installed, di) ELSE installed
    /\ UNCHANGED << persistent, idleVars, lockDisk, args, ret, deps_list, pipVars,
                    attempts, relocks, written, lockHist >>

\* do_download_dependencies is called: the plan is always built from the
\* Pipfile, without the VCS entries.
StartDownload ==
    /\ pc = "idle"
    /\ \E a \in DownloadArgs :
         /\ args' = a
         /\ deps_list' = LET lf == ProjectLockfile(pipfile)
                             deps0 == NonVcs(lf.default)
                             deps == IF a.dev THEN UpdateAll(deps0, NonVcs(lf.develop)) ELSE deps0
                         IN  [i \in 1..Len(deps) |-> PlanEntry(deps[i], TRUE)]
    /\ pc' = "download_loop"
    /\ ret' = "idle"
    /\ lockfile' = EmptyDoc
    /\ results' = NoResults
    /\ di' = 1
    /\ si' = 0
    /\ c' = NoResult
    /\ ignore' = FALSE
    /\ r' = FALSE
    /\ no_deps' = ""
    /\ attempts' = << >>
    /\ installed' = << >>
    /\ relocks' = 0
    /\ exitCode' = -1
    /\ err' = "none"
    /\ UNCHANGED << persistent, idleVars, site, lockDisk, written, lockHist >>

\* do_download_dependencies, the head of its loop: the call of pip_download.
PipDownloadBegin ==
    /\ pc = "download_loop"
    /\ IF di > Len(deps_list)
       THEN /\ Exit(0, "none")
            /\ UNCHANGED pipVars
       ELSE /\ si' = 1
            /\ c' = NoResult
            /\ pc' = IF sources = << >> THEN "pip_return" ELSE "pip_loop"
            /\ UNCHANGED << ignore, r, no_deps, lockVars, exitCode, err >>
    /\ attempts' = << >>
    /\ UNCHANGED << persistent, idleVars, site, lockDisk, args, ret, planVars,
                    installed, relocks, written, lockHist >>

\* pip_download, one turn of `for source in project.sources`.
PipDownloadAttempt ==
    /\ pc = "pip_loop"
    /\ args.cmd = "download"
    /\ \E code \in ExitCodes :
         /\ c' = [source |-> sources[si], code |-> code]
         /\ attempts' = Append(attempts,
                [cmd |-> "download", entry |-> di, source |-> sources[si],
                 arg |-> [file |-> FALSE, name |-> deps_list[di].name], require_hashes |-> FALSE, no_deps |-> "", code |-> code])
         /\ IF BreakOnSuccess(code) \/ si = Len(sources)
            THEN pc' = "pip_return" /\ UNCHANGED si
            ELSE pc' = "pip_loop" /\ si' = si + 1
    /\ UNCHANGED << persistent, idleVars, site, lockDisk, args, ret, lockVars, planVars, ignore, r, no_deps,
                    installed, relocks, written, lockHist, exitCode, err >>

\* pip_download's `return c`; do_download_dependencies goes on to the next
\* package whatever the exit code was.
PipDownloadReturn ==
    /\ pc = "pip_return"
    /\ args.cmd = "download"
    /\ IF c = NoResult
       THEN /\ Exit(1, "UnboundLocalError")          \* `c` was never assigned
            /\ UNCHANGED di
       ELSE /\ di' = di + 1
            /\ pc' = "download_loop"
            /\ UNCHANGED << lockVars, exitCode, err >>
    /\ UNCHANGED << persistent, idleVars, site, lockDisk, args, ret, deps_list, pipVars,
                    attempts, installed, relocks, written, lockHist >>

\* The `install` command with package names, after ensure_project (the
\* virtualenv and the Pipfile exist).
StartInstall ==
    /\ pc = "idle"
    /\ \E a \in InstallArgs : args' = a
    /\ \E pkgs \in PackageLists : package_names' = pkgs
    /\ pc' = "pkg_loop"
    /\ ret' = "idle"
    /\ lockfile' = EmptyDoc
    /\ results' = NoResults
    /\ deps_list' = << >>
    /\ di' = 1
    /\ si' = 0
    /\ c' = NoResult
    /\ ignore' = FALSE
    /\ r' = FALSE
    /\ no_deps' = ""
    /\ attempts' = << >>
    /\ installed' = << >>
    /\ relocks' = 0
    /\ exitCode' = -1
    /\ err' = "none"
    /\ added' = << >>
    /\ UNCHANGED << persistent, envVars, caseVars, parseVars, purgeVars, updVars, site, lockDisk, written, lockHist >>

\* install, the head of `for package_name in package_names`: the call
\* pip_install(package_name, ignore_hashes=True, no_deps=False), or after
\* the last package `if lock and not skip_lock: do_lock(...)`.
InstallPkgBegin ==
    /\ pc = "pkg_loop"
    /\ IF di > Len(package_names)
       THEN /\ IF ~args.skip_lock
               THEN pc' = "lock_develop" /\ ret' = "return" /\ relocks' = relocks + 1
               ELSE pc' = "return" /\ UNCHANGED << ret, relocks >>
            /\ UNCHANGED pipVars
       ELSE /\ ignore' = TRUE
            /\ r' = FALSE
            /\ no_deps' = "False"
            /\ si' = 1
            /\ c' = NoResult
            /\ pc' = IF sources = << >> THEN "pip_return" ELSE "pip_loop"
            /\ UNCHANGED << ret, relocks >>
    /\ attempts' = << >>
    /\ UNCHANGED << persistent, idleVars, site, lockDisk, args, lockVars, planVars,
                    installed, written, lockHist, exitCode, err >>

\* pip_install called by install for the current package name.
InstallPkgAttempt ==
    /\ pc = "pip_loop"
    /\ args.cmd = "install"
    /\ PipInstallTurn(PlanEntry(Entry(package_names[di], "str", 0, FALSE), TRUE))
    /\ UNCHANGED << persistent, idleVars, lockDisk, args, ret, lockVars, planVars, r,
                    installed, relocks, written, lockHist, exitCode, err >>

\* pip_install's `return c`, and what install does with it: a failed
\* assert ends the run; otherwise the package is added to the Pipfile, or
\* add_package_to_pipfile raises ValueError, which is echoed.
InstallPkgReturn ==
    /\ pc = "pip_return"
    /\ args.cmd = "install"
    /\ IF c = NoResult
       THEN /\ Exit(1, "UnboundLocalError")          \* `c` was never assigned
            /\ UNCHANGED << di, pipfile, added, installed >>
       ELSE IF ~AssertInstalled(c.code)
       THEN /\ Exit(InstallExitCode(c.code), "none")
            /\ UNCHANGED << di, pipfile, added, installed >>
       ELSE /\ \/ /\ pipfile' = AddPackageToPipfile(pipfile, package_names[di], args.dev)
                  /\ added' = Append(added, package_names[di])
               \/ UNCHANGED << pipfile, added >>
            /\ installed' = Append(installed, di)
            /\ di' = di + 1
            /\ pc' = "pkg_loop"
            /\ UNCHANGED << lockVars, exitCode, err >>
    /\ UNCHANGED << sources, lock0, package_names, envVars, caseVars, parseVars, purgeVars, updVars, site, lockDisk, args, ret, deps_list, pipVars,
                    attempts, relocks, written, lockHist >>

\* The `install` command without a package name: ensure_project (which
\* skips ensure_virtualenv with --system), then do_init.
StartEnsure ==
    /\ pc = "idle"
    /\ \E a \in EnvInitArgs : args' = a
    /\ \E p \in BOOLEAN : python' = p
    /\ \E system \in BOOLEAN : pc' = IF system THEN "init_venv" ELSE "ensure_venv"
    /\ depth' = 1
    /\ envlog' = NoEnvLog
    /\ ret' = "idle"
    /\ lockfile' = EmptyDoc
    /\ results' = NoResults
    /\ deps_list' = << >>
    /\ di' = 0
    /\ si' = 0
    /\ c' = NoResult
    /\ ignore' = FALSE
    /\ r' = FALSE
    /\ no_deps' = ""
    /\ attempts' = << >>
    /\ installed' = << >>
    /\ relocks' = 0
    /\ exitCode' = -1
    /\ err' = "none"
    /\ UNCHANGED << persistent, pkgVars, caseVars, parseVars, purgeVars, updVars, venv, site, lockDisk, written, lockHist >>

\* ensure_virtualenv: the virtualenv is created when it does not exist; when
\* it exists and an interpreter was asked for it is removed and
\* ensure_virtualenv calls itself; otherwise it returns.
EnsureVirtualenv ==
    /\ pc = "ensure_venv"
    /\ IF ~VirtualenvExists(venv)
       THEN /\ pc' = "create_venv_e"
            /\ UNCHANGED << venv, depth, envlog, lockVars, exitCode, err >>
       ELSE IF python
       THEN /\ \E ok \in RmtreeOutcomes(venv) :
                 /\ venv' = Rmtree(venv, ok)
                 /\ envlog' = [envlog EXCEPT !.removals = @ + 1, !.remove_failed = @ \/ ~ok]
            /\ IF depth + 1 > RecursionLimit
               THEN /\ Exit(1, "RecursionError")
                    /\ UNCHANGED depth
               ELSE /\ depth' = depth + 1
                    /\ pc' = "ensure_venv"
                    /\ UNCHANGED << lockVars, exitCode, err >>
       ELSE /\ pc' = "init_venv"
            /\ UNCHANGED << venv, depth, envlog, lockVars, exitCode, err >>
    /\ UNCHANGED << persistent, pkgVars, caseVars, parseVars, purgeVars, updVars, python, site, lockDisk, args, ret, planVars, pipVars,
                    attempts, installed, relocks, written, lockHist >>

\* do_create_virtualenv inside `try: ... except KeyboardInterrupt`, called
\* by ensure_virtualenv or by do_init: the exit code of the environment
\* manager is not looked at, an interrupt goes to the handler.
CreateVirtualenv ==
    /\ pc \in {"create_venv_e", "create_venv_i"}
    /\ \E o \in CreateOutcomes :
         /\ venv' = o.venv
         /\ envlog' = [envlog EXCEPT
                !.creations = @ + 1,
                !.create_failed = @ \/ o.how = "failed",
                !.interrupted = IF o.how # "interrupt" THEN @
                                ELSE IF pc = "create_venv_e" THEN "ensure" ELSE "init"]
         /\ pc' = IF o.how = "interrupt" THEN "interrupt_cleanup"
                  ELSE IF pc = "create_venv_e" THEN "init_venv" ELSE "init_stale"
    /\ UNCHANGED << persistent, pkgVars, caseVars, parseVars, purgeVars, updVars, python, depth, site, lockDisk, args, ret, lockVars, planVars,
                    pipVars, attempts, installed, relocks, written, lockHist, exitCode, err >>

\* `except KeyboardInterrupt: cleanup_virtualenv(bare=False); sys.exit(1)`
InterruptCleanup ==
    /\ pc = "interrupt_cleanup"
    /\ \E ok \in RmtreeOutcomes(venv) :
         /\ venv' = Rmtree(venv, ok)
         /\ envlog' = [envlog EXCEPT !.removals = @ + 1,
                                     !.cleanup = IF ok THEN "removed" ELSE "oserror"]
    /\ Exit(1, "none")
    /\ UNCHANGED << persistent, pkgVars, caseVars, parseVars, purgeVars, updVars, python, depth, site, lockDisk, args, ret, planVars,
                    pipVars, attempts, installed, relocks, written, lockHist >>

\* proper_case_section(section) is called: up to the loop.
StartProperCase ==
    /\ pc = "idle"
    /\ unknown_names' = UnknownNames(section, proper_names)
    /\ changed_values' = FALSE
    /\ dep_i' = 1
    /\ looked' = << >>
    /\ pc' = "case_loop"
    /\ UNCHANGED << persistent, pkgVars, envVars, parseVars, purgeVars, updVars, section, proper_names, proper_case, section0,
                    proper_names0, site, lockDisk, args, ret, lockVars, planVars, pipVars,
                    attempts, installed, relocks, written, lockHist, exitCode, err >>

\* proper_case_section, one turn of `for dep in unknown_names`.
ProperCaseTurn ==
    /\ pc = "case_loop"
    /\ dep_i <= Len(unknown_names)
    /\ LET dep == unknown_names[dep_i]
           new_casing == proper_case[dep]
       IN  /\ looked' = Append(looked, dep)
           /\ IF new_casing = 0                       \* IOError: continue
              THEN UNCHANGED << section, proper_names, changed_values >>
              ELSE IF new_casing # dep
              THEN /\ changed_values' = TRUE
                   /\ proper_names' = RegisterProperName(proper_names, new_casing)
                   /\ section' = RenameKey(section, dep, new_casing)
              ELSE UNCHANGED << section, proper_names, changed_values >>
    /\ dep_i' = dep_i + 1
    /\ UNCHANGED << persistent, pkgVars, envVars, parseVars, purgeVars, updVars, unknown_names, proper_case, section0,
                    proper_names0, site, lockDisk, args, ret, lockVars, planVars, pipVars,
                    attempts, installed, relocks, written, lockHist, pc, exitCode, err >>

\* A downloaded file and the name of its package.
InitFname ==
    /\ pipfile = [packages |-> [n \in Names |-> "none"], devpackages |-> [n \in Names |-> "none"]]
    /\ sources = << >>
    /\ lockDisk = NoLockFile
    /\ venv = "exists"
    /\ InitRun
    /\ NoCasing
    /\ NoPurging
    /\ \E n \in FileNamesOf, v \in FileVersions, p \in FilePosts, x \in FileSuffixes :
          /\ fname = FileName(n, v, p, x)
          /\ name = n
    /\ version = << >>
    /\ output = << >>
    /\ names = << >>

\* parse_download_fname(fname, name) is called and returns.
CallParseDownloadFname ==
    /\ pc = "idle"
    /\ fname # << >>
    /\ version' = ParseDownloadFname(fname, name)
    /\ pc' = "done"
    /\ exitCode' = 0
    /\ UNCHANGED << persistent, pkgVars, envVars, caseVars, purgeVars, updVars, fname, name, output, names, site, lockDisk,
                    args, ret, lockVars, planVars, pipVars, attempts, installed, relocks, written,
                    lockHist, err >>

NextFname == CallParseDownloadFname

SpecFname == InitFname /\ [][NextFname]_vars

\* An output of the installer.
InitOutput ==
    /\ pipfile = [packages |-> [n \in Names |-> "none"], devpackages |-> [n \in Names |-> "none"]]
    /\ sources = << >>
    /\ lockDisk = NoLockFile
    /\ venv = "exists"
    /\ InitRun
    /\ NoCasing
    /\ NoPurging
    /\ fname = << >>
    /\ name = << >>
    /\ version = << >>
    /\ output \in Outputs
    /\ names = << >>

\* parse_install_output(output) is called and returns.
CallParseInstallOutput ==
    /\ pc = "idle"
    /\ names' = ParseInstallOutput(output)
    /\ pc' = "done"
    /\ exitCode' = 0
    /\ UNCHANGED << persistent, pkgVars, envVars, caseVars, purgeVars, updVars, fname, name, version, output, site, lockDisk,
                    args, ret, lockVars, planVars, pipVars, attempts, installed, relocks, written,
                    lockHist, err >>

NextOutput == CallParseInstallOutput

SpecOutput == InitOutput /\ [][NextOutput]_vars

\* A virtualenv with some packages in it.
InitPurge ==
    /\ pipfile = [packages |-> [n \in Names |-> "none"], devpackages |-> [n \in Names |-> "none"]]
    /\ sources = << 1 >>
    /\ lockDisk = NoLockFile
    /\ venv = "exists"
    /\ InitRun
    /\ NoCasing
    /\ NoParsing
    /\ freeze \in FreezeOutputs
    /\ uninstall = << >>
    /\ purged = FALSE
    /\ dry_run = FALSE
    /\ installed_packages = [n \in Names |-> 0]
    /\ resolution = << >>
    /\ updates = FALSE

\* `uninstall --all`, after ensure_project: do_purge is called.
StartPurge ==
    /\ pc = "idle"
    /\ args' = PurgeArgs
    /\ pc' = "purge"
    /\ exitCode' = -1
    /\ err' = "none"
    /\ UNCHANGED << persistent, idleVars, site, lockDisk, ret, lockVars, planVars, pipVars,
                    attempts, installed, relocks, written, lockHist >>

\* do_purge: the freeze output is split, the protected packages are taken
\* out, the rest is handed to the uninstall command, whose exit code is not
\* looked at.  `uninstall --all` then ends; update goes on to do_init.
DoPurge ==
    /\ pc = "purge"
    /\ uninstall' = RemoveBadPackages(freeze, BAD_PACKAGES)
    /\ purged' = TRUE
    /\ \E ok \in BOOLEAN : site' = IF ok THEN { } ELSE site
    /\ IF args.cmd = "uninstall"
       THEN Exit(0, "none")
       ELSE /\ pc' = "init_venv"
            /\ UNCHANGED << lockVars, exitCode, err >>
    /\ UNCHANGED << persistent, pkgVars, envVars, caseVars, parseVars, updVars, freeze, lockDisk,
                    args, ret, planVars, pipVars, attempts, installed, relocks, written, lockHist >>

NextPurge ==
    \/ StartPurge
    \/ DoPurge

SpecPurge == InitPurge /\ [][NextPurge]_vars

\* A project whose virtualenv holds some packages, about to be updated.
InitUpdate ==
    /\ pipfile \in EnvManifests
    /\ sources = << 1 >>
    /\ lockDisk \in InitLocks(pipfile)
    /\ venv = "exists"
    /\ args = NoArgs
    /\ pc = "idle"
    /\ ret = "idle"
    /\ lockfile = EmptyDoc
    /\ results = NoResults
    /\ deps_list = << >>
    /\ di = 0
    /\ si = 0
    /\ c = NoResult
    /\ ignore = FALSE
    /\ r = FALSE
    /\ no_deps = ""
    /\ site \in SUBSET Names
    /\ attempts = << >>
    /\ installed = << >>
    /\ relocks = 0
    /\ written = FALSE
    /\ lock0 = lockDisk
    /\ locked = NoLocked
    /\ resolved = { }
    /\ probe = -1
    /\ exitCode = -1
    /\ err = "none"
    /\ package_names = << >>
    /\ added = << >>
    /\ python = FALSE
    /\ depth = 0
    /\ envlog = NoEnvLog
    /\ unknown_names = << >>
    /\ dep_i = 0
    /\ changed_values = FALSE
    /\ looked = << >>
    /\ NoCasing
    /\ NoParsing
    /\ freeze \in {<< >>, << FreezeLine(1), FreezeLine(2) >>}
    /\ uninstall = << >>
    /\ purged = FALSE
    /\ dry_run = FALSE
    /\ installed_packages = [n \in Names |-> 0]
    /\ resolution = << >>
    /\ updates = FALSE

\* The `update` command, after ensure_project (the virtualenv and the
\* Pipfile exist): `if dry_run:` the check, else do_purge and do_init.
StartUpdate ==
    /\ pc = "idle"
    /\ \E dry \in BOOLEAN, dev \in BOOLEAN :
         /\ dry_run' = dry
         /\ args' = UpdateArgs(dry, dev)
         /\ pc' = IF dry THEN "dry_run" ELSE "purge"
    /\ ret' = "idle"
    /\ lockfile' = EmptyDoc
    /\ results' = NoResults
    /\ deps_list' = << >>
    /\ di' = 0
    /\ si' = 0
    /\ c' = NoResult
    /\ ignore' = FALSE
    /\ r' = FALSE
    /\ no_deps' = ""
    /\ attempts' = << >>
    /\ installed' = << >>
    /\ relocks' = 0
    /\ exitCode' = -1
    /\ err' = "none"
    /\ updates' = FALSE
    /\ UNCHANGED << persistent, pkgVars, envVars, caseVars, parseVars, purgeVars,
                    installed_packages, resolution, site, lockDisk, written, lockHist >>

\* update --dry-run: the freeze output is read into installed_packages, the
\* declared packages are resolved, every resolved package is compared with
\* what is installed, and the run ends with int(updates).
UpdateDryRun ==
    /\ pc = "dry_run"
    /\ \E inst \in FreezeVersions(site) :
         /\ installed_packages' = inst
         /\ \/ \E res \in AnyResultLists :
                 /\ resolution' = res
                 /\ updates' = CheckUpdates(res, inst, updates)
                 /\ Exit(DryRunExit(CheckUpdates(res, inst, updates)), "none")
            \/ /\ Exit(1, "ResolutionError")
               /\ UNCHANGED << resolution, updates >>
    /\ UNCHANGED << persistent, pkgVars, envVars, caseVars, parseVars, purgeVars, dry_run,
                    site, lockDisk, args, ret, planVars, pipVars, attempts, installed,
                    relocks, written, lockHist >>

NextUpdate ==
    \/ StartUpdate
    \/ UpdateDryRun
    \/ DoPurge
    \/ DoInitVenv
    \/ DoInitStale
    \/ DoInitMissing
    \/ DoLockDevelop
    \/ DoLockDefault
    \/ DoLockProbe
    \/ DoLockOpen
    \/ DoLockDump
    \/ DoLockNewline
    \/ DoInstallPlan
    \/ PipInstallBegin
    \/ PipInstallAttempt
    \/ PipInstallReturn

SpecUpdate == InitUpdate /\ [][NextUpdate]_vars

\* proper_case_section, `return changed_values`.
ProperCaseReturn ==
    /\ pc = "case_loop"
    /\ dep_i > Len(unknown_names)
    /\ Exit(0, "none")
    /\ UNCHANGED << persistent, idleVars, site, lockDisk, args, ret, planVars, pipVars,
                    attempts, installed, relocks, written, lockHist >>

Next ==
    \/ StartInit
    \/ StartLock
    \/ Return
    \/ DoInitVenv
    \/ DoInitStale
    \/ DoInitMissing
    \/ DoLockDevelop
    \/ DoLockDefault
    \/ DoLockProbe
    \/ DoLockOpen
    \/ DoLockDump
    \/ DoLockNewline
    \/ Crash
    \/ DoInstallPlan
    \/ PipInstallBegin
    \/ PipInstallAttempt
    \/ PipInstallReturn
    \/ StartDownload
    \/ PipDownloadBegin
    \/ PipDownloadAttempt
    \/ PipDownloadReturn

Spec == Init /\ [][Next]_vars

\* The `install` command given package names.
NextInstall ==
    \/ StartInstall
    \/ InstallPkgBegin
    \/ InstallPkgAttempt
    \/ InstallPkgReturn
    \/ DoLockDevelop
    \/ DoLockDefault
    \/ DoLockProbe
    \/ DoLockOpen
    \/ DoLockDump
    \/ DoLockNewline
    \/ Return

SpecInstall == Init /\ [][NextInstall]_vars

\* The `install` command without a package name, from the virtualenv on.
NextEnv ==
    \/ StartEnsure
    \/ EnsureVirtualenv
    \/ CreateVirtualenv
    \/ InterruptCleanup
    \/ DoInitVenv
    \/ DoInitStale
    \/ DoInitMissing
    \/ DoLockDevelop
    \/ DoLockDefault
    \/ DoLockProbe
    \/ DoLockOpen
    \/ DoLockDump
    \/ DoLockNewline
    \/ DoInstallPlan
    \/ PipInstallBegin
    \/ PipInstallAttempt
    \/ PipInstallReturn

SpecEnv == InitEnv /\ [][NextEnv]_vars

\* do_lock when the resolver may name a package more than once.
NextLockAny ==
    \/ StartDoLock
    \/ DoLockDevelopAny
    \/ DoLockDefaultAny
    \/ DoLockProbe
    \/ DoLockOpen
    \/ DoLockDump
    \/ DoLockNewline
    \/ Return

SpecLockAny == InitLockAny /\ [][NextLockAny]_vars

\* One call of proper_case_section.
NextCase ==
    \/ StartProperCase
    \/ ProperCaseTurn
    \/ ProperCaseReturn

SpecCase == InitCase /\ [][NextCase]_vars

\* ------------------------------------------------------------------ claims

InPipCall == pc \in {"pip_loop", "pip_return"}

\* C1: pip_install and pip_download try the sources in declared order, stop
\* at the first attempt that exits 0 and return that attempt's result; when
\* every source fails they return the result of the last source attempted.
C1_SourceFallback ==
    LET n == Len(attempts)
    IN  /\ n <= Len(sources)
        /\ \A i \in 1..n : attempts[i].source = sources[i]
        /\ \A i \in 1..n : i < n => attempts[i].code # 0
        /\ (pc = "pip_return" /\ n > 0) =>
              /\ c = [source |-> attempts[n].source, code |-> attempts[n].code]
              /\ (c.code # 0 => n = Len(sources))

\* C1 witness: both sources failed with different codes, the second one's
\* result is about to be returned.
C1_Witness ==
    /\ pc = "pip_return"
    /\ Len(attempts) = 2
    /\ attempts[1].code # 0
    /\ attempts[2].code # 0
    /\ attempts[1].code # attempts[2].code
    /\ c.source = sources[2]

\* C2: do_install_dependencies installs the plan in order and fails fast:
\* the entries before the current one were all installed (exit code 0), and
\* once an entry's final result is a failure the run is over, nothing after
\* that entry having been attempted.
C2_FailFast ==
    args.cmd = "init" =>
        /\ installed = [i \in 1..Len(installed) |-> i]
        /\ (di >= 1 => Len(installed) = di - 1)
        /\ (InPipCall \/ (pc = "done" /\ c # NoResult /\ c.code # 0)) =>
              \A i \in 1..Len(attempts) : attempts[i].entry = di
        /\ (c # NoResult /\ c.code # 0) => pc \in {"pip_loop", "pip_return", "done"}
        /\ (pc = "done" /\ c # NoResult /\ c.code # 0) => (exitCode # 0 /\ di <= Len(deps_list))

\* C2 witness: a plan of three entries, the first installed, the second
\* failed on every source, the third never attempted.
C2_Witness ==
    /\ args.cmd = "init"
    /\ pc = "done"
    /\ Len(deps_list) = 3
    /\ installed = << 1 >>
    /\ di = 2
    /\ c.code # 0
    /\ Len(attempts) = Len(sources)

\* The staleness rule as the specification words it.
IsStale(lk, p) ==
    \/ lk.st = "absent"
    \/ ~lk.doc.hash.present
    \/ lk.doc.hash # PipfileHash(p)

Decided == pc \notin {"idle", "init_venv", "init_stale", "init_missing"}

\* C3: without skip-lock and ignore-pipfile, do_init calls do_lock if and
\* only if the lock is absent, has no recorded hash, or records a hash other
\* than the Pipfile's; when the hashes agree nothing is resolved and the
\* lock is not written.
C3_StalenessDecision ==
    (args.cmd = "init" /\ ~args.skip_lock /\ ~args.ignore_pipfile /\ Decided) =>
        /\ (relocks >= 1) <=> IsStale(lock0, pipfile)
        /\ ~IsStale(lock0, pipfile) => (resolved = { } /\ lockDisk = lock0 /\ probe = -1)

\* C3 witness: a lock that records the hash of another Pipfile made do_init
\* call do_lock.
C3_Witness ==
    /\ args.cmd = "init"
    /\ ~args.skip_lock
    /\ ~args.ignore_pipfile
    /\ lock0.st = "complete"
    /\ lock0.doc.hash.present
    /\ lock0.doc.hash # PipfileHash(pipfile)
    /\ relocks = 1
    /\ pc = "lock_default"

\* do_init's two tests, taken on the lock as it is now: would it call do_lock?
WouldRelock(a) ==
    \/ LockfileExists /\ ~a.ignore_pipfile /\ ~a.skip_lock /\ ~HashMatches(lockDisk.doc, pipfile)
    \/ ~LockfileExists /\ ~a.skip_lock

\* C4: once do_lock has finished, the hash recorded in the lock is the hash
\* of the Pipfile: the lock is not stale and no do_init started now, with
\* any arguments, would call do_lock; the do_init that called it does not
\* call it a second time.
C4_LockIsFresh ==
    written =>
        /\ lockDisk.st = "complete"
        /\ ~IsStale(lockDisk, pipfile)
        /\ \A a \in InitArgs : ~WouldRelock(a)
        /\ relocks = 1

\* C4 witness: do_init called do_lock, which finished, and went on to
\* install.
C4_Witness ==
    /\ written
    /\ args.cmd = "init"
    /\ pc = "install_plan"
    /\ lock0.st = "complete"

SectionNames(s) == {s[i].name : i \in 1..Len(s)}
ResultNames(rs) == {x.name : x \in rs}
TableNames(sec) == {n \in Names : sec[n] = "vcs"}

\* C5 as claimed: after do_lock each map of the written lock holds exactly
\* the packages the resolution of that group returned.
C5_OnlyResolved ==
    written =>
        /\ SectionNames(lockDisk.doc.default) = ResultNames(locked.default)
        /\ SectionNames(lockDisk.doc.develop) = ResultNames(locked.develop)

\* What a written section must be: a pin for every resolved package, and
\* the Pipfile's table entry for every table-valued name not resolved.
SectionIs(s, rs, sec) ==
    /\ SectionNames(s) = ResultNames(rs) \cup TableNames(sec)
    /\ \A i \in 1..Len(s) :
          IF s[i].name \in ResultNames(rs)
          THEN s[i].kind = "pin" /\ \E x \in rs : x.name = s[i].name /\ x.version = s[i].version
          ELSE s[i] = Entry(s[i].name, "vcs", 0, FALSE)

\* C5 (amended): after do_lock each map of the written lock holds exactly the
\* packages the resolution of that group returned plus the table-valued
\* entries of the Pipfile's section whose names the resolution did not
\* return; no string-valued Pipfile entry and no entry of the previous lock
\* survives.
C5_ResolvedAndTables ==
    written =>
        /\ SectionIs(lockDisk.doc.default, locked.default, pipfile.packages)
        /\ SectionIs(lockDisk.doc.develop, locked.develop, pipfile.devpackages)

\* C5 witness: a lock was written in which a table-valued Pipfile entry that
\* the resolution did not return stands beside a resolved package, while a
\* string-valued entry of the Pipfile was dropped.
C5_Witness ==
    /\ written
    /\ \E n \in Names :
          /\ pipfile.packages[n] = "vcs"
          /\ n \notin ResultNames(locked.default)
          /\ n \in SectionNames(lockDisk.doc.default)
    /\ locked.default # { }
    /\ \E n \in Names : pipfile.devpackages[n] = "str" /\ n \notin SectionNames(lockDisk.doc.develop)

\* C6: the lock file is touched only after both groups were resolved and the
\* probe printed its markers; a run that ends in a failed resolution or a
\* failed probe leaves the lock file as it was.
C6_NoPartialLock ==
    /\ lockDisk # lock0 => (resolved = {"develop", "default"} /\ probe \in Markers)
    /\ (pc = "done" /\ (err = "ResolutionError" \/ probe = 0)) => lockDisk = lock0

\* C6 witness: both groups resolved, the probe printed no JSON, the run
\* ended and the earlier lock is still there.
C6_Witness ==
    /\ pc = "done"
    /\ err = "ValueError"
    /\ probe = 0
    /\ resolved = {"develop", "default"}
    /\ lock0.st = "complete"
    /\ lockDisk = lock0

\* C7 as claimed: the lock file on disk is never empty or partly written,
\* and a run killed during the write leaves the lock as it was.
C7_AtomicWrite ==
    /\ lockDisk.st \in {"absent", "complete"}
    /\ (pc = "done" /\ err = "killed") => lockDisk = lock0

Orders(s) == {q \in [1..Len(s) -> Range(s)] : Range(q) = Range(s)}

\* The document do_lock writes for a Pipfile, the two resolutions, the
\* hashes switch and the markers.
LockDocument(p, develop, default, no_hashes, markers) ==
    LET lf == ProjectLockfile(p)
    IN  JsonDump([hash |-> lf.hash, markers |-> markers,
                  default |-> AddResults(CleanupSection(lf.default), default, no_hashes),
                  develop |-> AddResults(CleanupSection(lf.develop), develop, no_hashes)])

Ascending(s) == \A i, j \in 1..Len(s) : i < j => s[i].name < s[j].name

\* C8: the document written is the same for every order in which the
\* resolver could have returned the same packages (same Pipfile, same
\* markers), its maps are sorted by key, and a finished lock file ends
\* with the newline.
C8_Idempotent ==
    /\ pc = "lock_newline" =>
          /\ \A d1 \in Orders(results.develop), d2 \in Orders(results.default) :
                LockDocument(pipfile, d1, d2, args.no_hashes, lockfile.markers) = lockDisk.doc
          /\ Ascending(lockDisk.doc.default)
          /\ Ascending(lockDisk.doc.develop)
    /\ written => lockDisk.st = "complete"

\* C8 witness: the resolver returned two packages in descending name order
\* and the document has been written.
C8_Witness ==
    /\ pc = "lock_newline"
    /\ Len(results.default) = 2
    /\ results.default[1].name > results.default[2].name
    /\ Len(lockDisk.doc.default) >= 2

\* C9: when pip_install is asked to enforce hashes, an entry without a hash
\* is never run with --require-hashes, and an entry with a hash is run with
\* --require-hashes on every source attempt.
C9_HashDowngrade ==
    (args.cmd = "init" /\ InPipCall) =>
        \A i \in 1..Len(attempts) :
            LET e == deps_list[attempts[i].entry]
            IN  ~e.ignore_hash => (attempts[i].require_hashes <=> e.hashes)

\* C9 witness: an entry without a hash, hash enforcement asked for, was
\* installed from the second source without --require-hashes.
C9_Witness ==
    /\ args.cmd = "init"
    /\ pc = "pip_return"
    /\ ~deps_list[di].ignore_hash
    /\ ~deps_list[di].hashes
    /\ Len(attempts) = 2
    /\ ~attempts[2].require_hashes
    /\ attempts[2].code = 0

\* The other half of C9's case: an entry with a hash, run with
\* --require-hashes on both sources.
C9_WitnessHashed ==
    /\ args.cmd = "init"
    /\ pc = "pip_return"
    /\ ~deps_list[di].ignore_hash
    /\ deps_list[di].hashes
    /\ Len(attempts) = 2
    /\ attempts[1].require_hashes
    /\ attempts[2].require_hashes

C11_NoDepsUnlessSkipLock ==
    args.cmd = "init" =>
        \A i \in 1..Len(attempts) :
            /\ attempts[i].cmd = "install"
            /\ (attempts[i].no_deps = "--no-deps") <=> ~args.skip_lock

\* C11 witness: a skip-lock run tried two sources for an entry, neither
\* time with --no-deps.
C11_Witness ==
    /\ args.cmd = "init"
    /\ args.skip_lock
    /\ pc = "pip_return"
    /\ Len(attempts) = 2
    /\ attempts[1].no_deps = ""
    /\ attempts[2].no_deps = ""

\* The other half of C11's case: a run from the lock, --no-deps on both
\* sources.
C11_WitnessLocked ==
    /\ args.cmd = "init"
    /\ ~args.skip_lock
    /\ pc = "pip_return"
    /\ Len(attempts) = 2
    /\ attempts[1].no_deps = "--no-deps"
    /\ attempts[2].no_deps = "--no-deps"

\* C12: a plan entry that comes from the default-vcs / develop-vcs maps is
\* handed to pip_install with ignore_hashes set, and none of its installer
\* runs carries --require-hashes.
C12_VcsHashExempt ==
    args.cmd = "init" =>
        /\ \A i \in 1..Len(deps_list) : deps_list[i].kind = "vcs" => deps_list[i].ignore_hash
        /\ InPipCall =>
              \A i \in 1..Len(attempts) :
                  deps_list[attempts[i].entry].kind = "vcs" => ~attempts[i].require_hashes

\* C12 witness: a run from a written lock (hashes recorded for the pinned
\* packages) installs a VCS entry, trying both sources.
C12_Witness ==
    /\ args.cmd = "init"
    /\ ~args.skip_lock
    /\ ~args.no_hashes
    /\ written
    /\ pc = "pip_return"
    /\ deps_list[di].kind = "vcs"
    /\ Len(attempts) = 2
    /\ \E i \in 1..Len(deps_list) : deps_list[i].hashes

PlanNames(idx) == {deps_list[idx[i]].name : i \in 1..Len(idx)}

FailedInstall == args.cmd = "init" /\ pc = "done" /\ c # NoResult /\ c.code # 0

\* C14: when an entry fails and the run ends, the packages of the entries
\* installed before it are still in the virtualenv, and the failed installer
\* run is the last command the run issued.
C14_NoRollback ==
    FailedInstall =>
        /\ site = PlanNames(installed)
        /\ attempts # << >>
        /\ attempts[Len(attempts)].cmd = "install"
        /\ attempts[Len(attempts)].entry = di
        /\ attempts[Len(attempts)].code = c.code
        /\ exitCode = c.code

\* C14 witness: two entries were installed, the third failed, the run is
\* over and both packages are in the virtualenv.
C14_Witness ==
    /\ FailedInstall
    /\ Len(installed) = 2
    /\ di = 3
    /\ Cardinality(site) = 2

InInstallStage == pc \in {"install_loop", "pip_loop", "pip_return"} \/ (pc = "done" /\ di >= 1)

\* C15: in a run without skip-lock and ignore-pipfile nothing is resolved
\* before the staleness check; when the check finds the lock stale or absent
\* the new lock is complete on disk before the plan is built, the plan is
\* read from that lock, and so every installer run installs from a lock that
\* records the Pipfile's hash.
C15_LockBeforeInstall ==
    (args.cmd = "init" /\ ~args.skip_lock /\ ~args.ignore_pipfile) =>
        /\ pc = "init_stale" => (resolved = { } /\ probe = -1 /\ lockDisk = lock0)
        /\ (pc \in {"install_plan"} \cup {"install_loop", "pip_loop", "pip_return"}) =>
              /\ lockDisk.st = "complete"
              /\ ~IsStale(lockDisk, pipfile)
              /\ IsStale(lock0, pipfile) => written
        /\ (pc \in {"install_loop", "pip_loop", "pip_return"}) =>
              deps_list = DepsList(lockDisk.doc, args.dev, FALSE, FALSE)
        /\ (attempts # << >> \/ site # { }) => ~IsStale(lockDisk, pipfile)

\* C15 witness: the lock was stale, do_lock wrote a new one, and the first
\* entry of the plan read from it is being installed.
C15_Witness ==
    /\ args.cmd = "init"
    /\ ~args.skip_lock
    /\ ~args.ignore_pipfile
    /\ lock0.st = "complete"
    /\ IsStale(lock0, pipfile)
    /\ written
    /\ pc = "pip_return"
    /\ di = 1
    /\ attempts # << >>

InstallFailure ==
    /\ pc = "done"
    /\ err = "none"
    /\ c # NoResult
    /\ c.code # 0

\* C13 as claimed: when an installation fails, the command ends with the
\* exit code of the failed installer run, in the install loop of
\* do_install_dependencies and in `install pkg...` alike.
C13_ExitCodeVerbatim ==
    (args.cmd \in {"init", "install"} /\ InstallFailure) => exitCode = c.code

\* C16 as claimed: when `install pkg...` ends (by return or sys.exit) after
\* adding a package to the Pipfile, and skip-lock is off, the lock has been
\* written again and records the hash of the Pipfile as it is now.
C16_LockFollowsManifest ==
    (args.cmd = "install" /\ pc = "done" /\ err = "none" /\ added # << >> /\ ~args.skip_lock) =>
        /\ written
        /\ HashMatches(lockDisk.doc, pipfile)

\* Nothing of the lock and install stages has happened in this run.
NoLaterStep ==
    /\ relocks = 0
    /\ resolved = { }
    /\ probe = -1
    /\ lockDisk = lock0
    /\ deps_list = << >>
    /\ attempts = << >>
    /\ installed = << >>
    /\ site = { }

\* C17 as claimed: after an interrupt during the creation of the virtualenv
\* the run ends with the directory removed and exit code 1, and no lock or
\* install step runs.
C17_InterruptRemovesDir ==
    envlog.interrupted # "no" =>
        /\ pc \in {"interrupt_cleanup", "done"}
        /\ NoLaterStep
        /\ pc = "done" => (venv = "absent" /\ exitCode = 1)

\* C17 (amended): after an interrupt during the creation of the virtualenv,
\* on either creation path, cleanup_virtualenv runs and only then the run
\* ends with exit code 1; the directory is gone unless shutil.rmtree itself
\* failed (its OSError is swallowed); no lock or install step runs.
C17_InterruptCleansUp ==
    envlog.interrupted # "no" =>
        /\ pc \in {"interrupt_cleanup", "done"}
        /\ NoLaterStep
        /\ pc = "interrupt_cleanup" => (exitCode = -1 /\ envlog.cleanup = "none")
        /\ pc = "done" =>
              /\ exitCode = 1
              /\ envlog.cleanup # "none"
              /\ (venv = "absent" \/ envlog.cleanup = "oserror")

\* C17 witness: do_init's creation was interrupted with the directory partly
\* made; the directory was removed and the run ended with exit code 1.
C17_Witness ==
    /\ envlog.interrupted = "init"
    /\ envlog.cleanup = "removed"
    /\ pc = "done"
    /\ venv = "absent"
    /\ exitCode = 1

\* The same on ensure_virtualenv's path, after the removal of an existing
\* virtualenv.
C17_WitnessEnsure ==
    /\ envlog.interrupted = "ensure"
    /\ envlog.cleanup = "removed"
    /\ envlog.removals = 2
    /\ pc = "done"
    /\ venv = "absent"
    /\ exitCode = 1

\* C18 as claimed: once the creation of the virtualenv, or the removal of the
\* existing one, has failed, the command performs no resolution, no lock
\* write and no installer run.
C18_EnvFailureIsFatal ==
    (envlog.create_failed \/ envlog.remove_failed) => NoLaterStep

KeySet(sec) == {sec[i].name : i \in 1..Len(sec)}

Renamed(k) == proper_case[k] \notin {0, k}

\* What holds of the lookups made so far: only declared names that were not
\* in the registry at the call, each once and in the section's order; when
\* the function has returned every such name was looked up, whatever
\* lookups failed, and changed_values tells whether a key was renamed.
C19_Lookups ==
    pc \in {"case_loop", "done"} =>
        /\ \A i \in 1..Len(looked) : looked[i] \in KeySet(section0) \ proper_names0
        /\ \A i, j \in 1..Len(looked) : i # j => looked[i] # looked[j]
        /\ pc = "done" => Range(looked) = KeySet(section0) \ proper_names0
        /\ changed_values <=> \E i \in 1..Len(looked) : Renamed(looked[i])

\* What one lookup does to the section and the registry.
C19_Turn ==
    looked' # looked =>
        LET dep == looked'[Len(looked')]
            new_casing == proper_case[dep]
        IN  /\ new_casing = 0 =>
                  /\ section' = section
                  /\ proper_names' = proper_names
                  /\ pc' = "case_loop"
            /\ new_casing = dep =>
                  /\ section' = section
                  /\ proper_names' = proper_names
            /\ Renamed(dep) =>
                  /\ dep \notin KeySet(section')
                  /\ new_casing \in KeySet(section')
                  /\ DictGet(section', new_casing) = DictGet(section, dep)
                  /\ proper_names' = proper_names \cup {new_casing}

\* C19: proper_case_section looks up only the declared names that are not in
\* the registry; a failed lookup changes neither the section nor the
\* registry and the loop goes on to the remaining names; a lookup whose
\* answer differs from the declared name renames the key, which keeps its
\* value, and registers the canonical name; the function returns true if
\* and only if a key was renamed.
C19_ProperCaseSection == [](C19_Lookups) /\ [][C19_Turn]_vars

\* C19 witness: of three declared names one was in the registry and was not
\* looked up, the lookup of the next failed, the last was renamed, and the
\* function returned true.
C19_Witness ==
    /\ pc = "done"
    /\ Len(section0) = 3
    /\ Len(looked) = 2
    /\ proper_case[looked[1]] = 0
    /\ Renamed(looked[2])
    /\ changed_values
    /\ Len(section) = 3

Occurrences(s, n) == {i \in 1..Len(s) : s[i].name = n}

\* The version of the last result that names n.
LastVersion(rs, n) ==
    rs[CHOOSE i \in Occurrences(rs, n) : \A j \in Occurrences(rs, n) : j <= i].version

\* A written group holds every resolved name once, pinned to the version of
\* the last result that named it, with hashes iff they were requested.
OnePinPerName(s, rs, no_hashes) ==
    /\ \A n \in Names : Cardinality(Occurrences(s, n)) <= 1
    /\ \A n \in {rs[i].name : i \in 1..Len(rs)} :
          \E i \in 1..Len(s) : s[i] = Entry(n, "pin", LastVersion(rs, n), ~no_hashes)

\* C20: in the document do_lock writes, each group holds one entry per
\* package name; for a name the resolver returned, also more than once, it
\* is the pin '==<version>' of the last result returned for it, with hashes
\* if and only if hashes were requested.
C20_OnePinPerName ==
    pc = "lock_newline" =>
        /\ OnePinPerName(lockDisk.doc.default, results.default, args.no_hashes)
        /\ OnePinPerName(lockDisk.doc.develop, results.develop, args.no_hashes)

\* C20 witness: the resolver returned the same name twice with different
\* versions for the default group, hashes were requested, and the document
\* has been written.
C20_Witness ==
    /\ pc = "lock_newline"
    /\ ~args.no_hashes
    /\ Len(results.default) = 2
    /\ results.default[1].name = results.default[2].name
    /\ results.default[1].version # results.default[2].version

\* The lock structure do_install_dependencies builds its plan from: the
\* Pipfile's in skip-lock mode or without a lock file, else Pipfile.lock's.
PlanSource ==
    IF args.skip_lock \/ ~LockfileExists THEN ProjectLockfile(pipfile) ELSE lockDisk.doc

\* The plan of a do_init run has been built.
PlanBuilt ==
    /\ args.cmd = "init"
    /\ \/ di >= 1
       \/ pc = "done" /\ args.requirements /\ exitCode = 0

\* C21: group selection in do_install_dependencies.  With dev the plan holds
\* every package of the default group and every package of the develop
\* group; without dev it holds every package of the default group and no
\* package that is only in the develop group.
C21_GroupSelection ==
    PlanBuilt =>
        LET plan == SectionNames(deps_list)
            default == SectionNames(PlanSource.default)
            develop == SectionNames(PlanSource.develop)
        IN  /\ default \subseteq plan
            /\ args.dev => plan = default \cup develop
            /\ ~args.dev => plan = default

\* A plan is built without dev from a structure whose develop group has a
\* package the default group has not; another is built with dev from two
\* groups that share one name and differ in another.
C21_Witness ==
    /\ PlanBuilt
    /\ pc = "install_loop"
    /\ ~args.dev
    /\ SectionNames(PlanSource.default) # { }
    /\ SectionNames(PlanSource.develop) \ SectionNames(PlanSource.default) # { }

C21_WitnessDev ==
    /\ PlanBuilt
    /\ pc = "install_loop"
    /\ args.dev
    /\ SectionNames(PlanSource.default) \cap SectionNames(PlanSource.develop) # { }
    /\ SectionNames(PlanSource.develop) \ SectionNames(PlanSource.default) # { }

\* The installer invocations of the current pip_install / pip_download call
\* are bounded by the source list: no source twice, none after an exit 0.
C22_Bounded ==
    /\ Len(attempts) <= Len(sources)
    /\ \A i, j \in 1..Len(attempts) : i # j => attempts[i].source # attempts[j].source
    /\ \A i, j \in 1..Len(attempts) : (i < j) => attempts[i].code # 0
    /\ args.cmd \in {"init", "download"} => relocks <= 1

\* One step of a run repeats nothing: it adds at most one invocation, for
\* the current entry; a call that has returned is followed by the next
\* entry or by the end of the run, and the position in the plan never goes
\* back.
C22_Step ==
    /\ (attempts' # attempts /\ attempts' # << >>) =>
          /\ Len(attempts') = Len(attempts) + 1
          /\ SubSeq(attempts', 1, Len(attempts)) = attempts
          /\ attempts'[Len(attempts')].entry = di
          /\ di' = di
    /\ (pc # "idle" /\ args.cmd \in {"init", "download"}) => di' >= di
    /\ (pc = "pip_return" /\ args.cmd \in {"init", "download"}) =>
          \/ pc' = "done" /\ di' = di
          \/ pc' \in {"install_loop", "download_loop"} /\ di' = di + 1 /\ c.code # -1

\* C22: the multi-source fallback is a bounded retry.  Within one
\* pip_install or pip_download call each source is attempted at most once,
\* no source is attempted after an attempt that exited 0, and the call is
\* over after at most Len(sources) invocations; nothing else in a run is
\* tried again.
C22_BoundedRetry == [](C22_Bounded) /\ [][C22_Step]_vars

\* The second entry of a plan exits 0 on the first of two sources: the call
\* returns after that one invocation, the second source untried.
C22_Witness ==
    /\ pc = "pip_return"
    /\ Len(sources) = 2
    /\ di = 2
    /\ Len(attempts) = 1
    /\ attempts[1].code = 0
    /\ attempts[1].source = sources[1]

\* C25: do_install_dependencies always obtains a plan source, whatever its
\* flags and whether or not a lock file exists: no run ends at the plan
\* step because the lock structure was never assigned.
C25_PlanSourceObtained ==
    (args.cmd = "init" /\ pc = "done" /\ di = 0) => err # "UnboundLocalError"

\* C26: pip_install and pip_download return a process result for every
\* source list, the empty one included: at `return c` a result is there.
C26_ResultReturned ==
    pc = "pip_return" => c # NoResult

\* C27: ensure_virtualenv terminates.  Called with an interpreter pin on an
\* existing virtualenv it removes the virtualenv once, calls itself once to
\* create it, and returns: no second removal, no deeper recursion and no
\* RecursionError, also when the removal fails.
C27_EnsureTerminates ==
    (python /\ envlog.interrupted = "no") =>
        /\ envlog.removals <= 1
        /\ depth <= 2
        /\ err # "RecursionError"

\* C28: one do_init run regenerates the lock at most once.  After the
\* 'out of date' branch has called do_lock the lock file exists, so the
\* 'not found' branch does not call it again; with skip-lock do_lock is
\* never called and the lock file is left as it was.
C28_OneRegeneration ==
    args.cmd = "init" =>
        /\ relocks <= 1
        /\ (pc = "init_missing" /\ relocks = 1) => LockfileExists
        /\ args.skip_lock => (relocks = 0 /\ lockDisk = lock0 /\ resolved = { })

\* The 'out of date' branch has regenerated a stale lock and do_init is at
\* the 'not found' test with the new lock on disk.
C28_Witness ==
    /\ args.cmd = "init"
    /\ pc = "init_missing"
    /\ relocks = 1
    /\ lockDisk # lock0
    /\ lockDisk.st = "complete"

\* A skip-lock run without a lock file has reached the installer.
C28_WitnessSkipLock ==
    /\ args.cmd = "init"
    /\ args.skip_lock
    /\ lock0.st = "absent"
    /\ pc = "pip_return"
    /\ relocks = 0

\* The packages of `install pkg...` that are installed, and those added to
\* the Pipfile, are among the ones listed before the current one, each after
\* an installer run of its own that exited 0; the current one is in the
\* virtualenv only if its run exited 0.
C29_Installed ==
    args.cmd = "install" =>
        /\ installed = [i \in 1..Len(installed) |-> i]
        /\ Len(installed) <= Len(package_names)
        /\ pc # "idle" => di \in {Len(installed), Len(installed) + 1}
        /\ \A k \in 1..Len(added) : \E i \in Range(installed) : package_names[i] = added[k]
        /\ Len(added) <= Len(installed)
        /\ site \subseteq {package_names[i] : i \in Range(installed)}
                \cup {package_names[attempts[j].entry] : j \in {k \in 1..Len(attempts) : attempts[k].code = 0}}
        /\ InPipCall => \A j \in 1..Len(attempts) : attempts[j].entry = di
        /\ InstallFailure =>
              /\ Len(installed) = di - 1
              /\ \A j \in 1..Len(attempts) : attempts[j].entry = di
              /\ \A j \in 1..Len(attempts) : attempts[j].code # 0
              /\ site = {package_names[i] : i \in Range(installed)}

\* A step adds a package to the Pipfile only on the return of that
\* package's installer run with exit code 0; a return with another exit code
\* ends the run with the Pipfile, the virtualenv and the list of installed
\* packages as they were.
C29_Step ==
    args.cmd = "install" =>
        /\ (added' # added \/ (pipfile' # pipfile)) =>
              /\ pc = "pip_return"
              /\ c.code = 0
              /\ attempts # << >>
              /\ attempts[Len(attempts)].code = 0
              /\ attempts[Len(attempts)].entry = di
              /\ added' = Append(added, package_names[di])
        /\ (pc = "pip_return" /\ c.code # 0) =>
              /\ pc' = "done"
              /\ added' = added /\ pipfile' = pipfile /\ installed' = installed /\ site' = site
        /\ pc = "done" => pc' = "done"

\* C29: in `install pkg...` a package is added to the Pipfile only after
\* its own installer run ended with exit code 0; the first failing package
\* and every package listed after it are neither installed nor added.
C29_AddAfterSuccess == [](C29_Installed) /\ [][C29_Step]_vars

\* Of two packages the first was installed and added, the second failed on
\* every source: the run is over with one package in the Pipfile.
C29_Witness ==
    /\ args.cmd = "install"
    /\ InstallFailure
    /\ Len(package_names) = 2
    /\ package_names[1] # package_names[2]
    /\ di = 2
    /\ installed = << 1 >>
    /\ added = << package_names[1] >>
    /\ site = {package_names[1]}

\* C30: all the attempts of one pip_install call use the same installer
\* flags.  --no-deps, --require-hashes and the install argument (the
\* requirements file or the quoted requirement) are the same on the first
\* attempt and on every fallback attempt; the source differs.
C30_SameFlags ==
    \A i, j \in 1..Len(attempts) :
        (attempts[i].cmd = "install" /\ i < j) =>
            /\ attempts[j].cmd = "install"
            /\ attempts[j].no_deps = attempts[i].no_deps
            /\ attempts[j].require_hashes = attempts[i].require_hashes
            /\ attempts[j].arg = attempts[i].arg
            /\ attempts[j].source # attempts[i].source

\* A hashed entry failed on the first source and was installed from the
\* second, with --no-deps and --require-hashes both times.
C30_Witness ==
    /\ pc = "pip_return"
    /\ Len(attempts) = 2
    /\ attempts[1].cmd = "install"
    /\ attempts[1].no_deps = "--no-deps"
    /\ attempts[1].require_hashes
    /\ attempts[1].arg.file
    /\ attempts[1].code # 0
    /\ attempts[2].code = 0

\* The same in skip-lock mode: neither flag on either attempt.
C30_WitnessSkipLock ==
    /\ pc = "pip_return"
    /\ Len(attempts) = 2
    /\ attempts[1].cmd = "install"
    /\ attempts[1].no_deps = ""
    /\ ~attempts[1].require_hashes
    /\ attempts[1].code # 0
    /\ attempts[2].code = 0

AlphaWheel == FileName(<< "a", "l", "p", "h", "a" >>, << "1", ".", "2", ".", "3" >>, << >>, Wheel)
AlphaPostTarGz == FileName(<< "a", "l", "p", "h", "a" >>, << "1", ".", "2", ".", "3" >>, ExplicitPost, TarGz)

\* What is left of the part after the version number: an implicit post
\* release, a dash and digits, is dropped; anything else stays.
PostKept(p) == IF p # << >> /\ p[1] = "-" /\ IsDigit(Tail(p)) THEN << >> ELSE p

\* The general rule: for '<name>-<version><post><suffix>' the result is the
\* version with what is kept of <post>.
C23_Rule(kept(_)) ==
    pc = "done" =>
        \A n \in FileNamesOf, v \in FileVersions, p \in FilePosts, x \in FileSuffixes :
            (fname = FileName(n, v, p, x) /\ name = n) => version = v \o kept(p)

\* C23 as claimed: 'alpha-1.2.3-py3-none-any.whl' gives '1.2.3' and
\* 'alpha-1.2.3.post1.tar.gz' gives '1.2.3', the post-release segment
\* dropped; in general suffix, wheel tags and '<name>-' are removed and a
\* trailing '-<digits>' segment is dropped.
C23_PostReleaseDropped ==
    /\ (pc = "done" /\ fname = AlphaWheel) => version = << "1", ".", "2", ".", "3" >>
    /\ (pc = "done" /\ fname = AlphaPostTarGz) => version = << "1", ".", "2", ".", "3" >>
    /\ C23_Rule(LAMBDA p : IF p = ExplicitPost THEN << >> ELSE PostKept(p))

\* C23 (amended): 'alpha-1.2.3-py3-none-any.whl' gives '1.2.3' and
\* 'alpha-1.2.3.post1.tar.gz' gives '1.2.3.post1'; in general suffix, wheel
\* tags and '<name>-' are removed and only a trailing '-<digits>' segment is
\* dropped, an explicit '.postN' being part of the version returned.
C23_VersionExtraction ==
    /\ (pc = "done" /\ fname = AlphaWheel) => version = << "1", ".", "2", ".", "3" >>
    /\ (pc = "done" /\ fname = AlphaPostTarGz) =>
            version = << "1", ".", "2", ".", "3", ".", "p", "o", "s", "t", "1" >>
    /\ C23_Rule(PostKept)

\* 'alpha-1.2.3.post1.tar.gz' has been parsed.
C23_Witness ==
    /\ pc = "done"
    /\ fname = AlphaPostTarGz
    /\ name = << "a", "l", "p", "h", "a" >>
    /\ version # << >>

\* A wheel with an implicit post release has been parsed.
C23_WitnessImplicit ==
    /\ pc = "done"
    /\ fname = FileName(<< "a", "-", "b" >>, << "1", ".", "0" >>, ImplicitPost, Wheel)
    /\ version = << "1", ".", "0" >>

\* The 'Collecting '-delimited sections of the output, the lines of one,
\* and the lines of one that match a save-confirmation pattern.
OutputSections == SplitOn(output, "Collecting ")
SectionLines(k) == SplitOn(OutputSections[k], "\n")
Matching(k) == {i \in 1..Len(SectionLines(k)) : MatchFile(Strip(SectionLines(k)[i])) # << >>}
WithMatch == {k \in 1..Len(OutputSections) : Matching(k) # { }}

\* C24: parse_install_output gives at most one pair per 'Collecting '-
\* delimited section.  The sections with a matching line give one pair each,
\* in order, made from the first matching line of the section and the
\* section's name line; the others give none; the parser does not raise.
C24_OnePairPerSection ==
    pc = "done" =>
        /\ err = "none"
        /\ Len(names) <= Len(OutputSections)
        /\ Len(names) = Cardinality(WithMatch)
        /\ \A k \in WithMatch :
              LET first == CHOOSE i \in Matching(k) : \A j \in Matching(k) : i <= j
                  pair == names[Cardinality({t \in WithMatch : t <= k})]
              IN  /\ pair.file = Basename(Tail(Strip(SectionLines(k)[first])))
                  /\ pair.name = SectionName(SectionLines(k)[1])

\* An output with a section that has two matching lines naming different
\* files and a section that has none has been parsed.
C24_Witness ==
    /\ pc = "done"
    /\ \E k \in WithMatch : \E i, j \in Matching(k) :
          Basename(Tail(Strip(SectionLines(k)[i]))) # Basename(Tail(Strip(SectionLines(k)[j])))
    /\ \E k \in 1..Len(OutputSections) : k > 1 /\ k \notin WithMatch
    /\ Len(names) = 1

\* C31: proper_case_section never loses a declared dependency.  When it has
\* returned the section has as many entries as at the call, and every value
\* declared at the call is still there, under the key it had or under the
\* canonical spelling of that key.
C31_NoDependencyLost ==
    (pc = "done" /\ section0 # << >>) =>
        /\ Len(section) = Len(section0)
        /\ \A i \in 1..Len(section0) :
              \E j \in 1..Len(section) :
                  /\ section[j].value = section0[i].value
                  /\ section[j].name \in {section0[i].name, proper_case[section0[i].name]}

\* What `lock --requirements` passes to do_init.
LockRequirementsArgs ==
    [cmd |-> "init", dev |-> TRUE, requirements |-> TRUE, no_hashes |-> FALSE,
     ignore_pipfile |-> FALSE, skip_lock |-> FALSE]

LockDerived(i) ==
    /\ args.cmd = "init"
    /\ ~args.skip_lock
    /\ InPipCall
    /\ deps_list[attempts[i].entry].kind # "vcs"

C35_WitnessHashes ==
    /\ pc = "pip_return"
    /\ ~args.no_hashes
    /\ relocks = 1
    /\ lock0.st = "complete"
    /\ Len(attempts) = 1
    /\ LockDerived(1)
    /\ attempts[1].require_hashes
    /\ attempts[1].code = 0

\* C34: do_purge never uninstalls a protected package.  The list handed to
\* the uninstall command has no entry that starts with a name in
\* BAD_PACKAGES, whatever the freeze output lists and in whatever order.
C34_ProtectedKept ==
    purged =>
        \A i \in 1..Len(uninstall) : \A b \in 1..Len(BAD_PACKAGES) :
            ~StartsWith(uninstall[i], BAD_PACKAGES[b])

\* Some resolved package is installed in a version other than the resolved one.
VersionDiffers ==
    \E i \in 1..Len(resolution) :
        installed_packages[resolution[i].name] \notin {0, resolution[i].version}

\* Nothing of do_purge, do_lock or the install loop has happened in this run.
NothingDone ==
    /\ ~purged
    /\ uninstall = << >>
    /\ lockDisk = lock0
    /\ ~written
    /\ relocks = 0
    /\ resolved = { }
    /\ deps_list = << >>
    /\ attempts = << >>
    /\ installed = << >>

C33_Reports ==
    /\ dry_run => NothingDone
    /\ (dry_run /\ pc = "done" /\ err = "none") =>
           exitCode = IF VersionDiffers THEN 1 ELSE 0
    /\ (args.cmd = "init" /\ ~purged) => (pc = "purge" /\ NothingDone)

C33_Step ==
    (dry_run' \/ ~purged') => (site' = site /\ lockDisk' = lockDisk)

C33_WitnessUpToDate ==
    /\ dry_run
    /\ pc = "done"
    /\ err = "none"
    /\ resolution # << >>
    /\ site # { }
    /\ ~VersionDiffers
    /\ exitCode = 0

\* An update that purged and then installed from a regenerated lock.
C33_WitnessPurgeFirst ==
    /\ ~dry_run
    /\ purged
    /\ relocks = 1
    /\ attempts # << >>

TypeOK ==
    /\ pc \in {"idle", "done", "init_stale", "init_missing", "lock_develop", "lock_default",
               "lock_probe", "lock_open", "lock_dump", "lock_newline", "install_plan",
               "install_loop", "download_loop", "pip_loop", "pip_return", "return", "pkg_loop",
               "case_loop", "purge", "dry_run", "init_venv", "ensure_venv", "create_venv_e", "create_venv_i", "interrupt_cleanup"}
    /\ exitCode \in {-1, 137} \cup ExitCodes \cup {1}

====
